---- MODULE Spec2Model ----
(***************************************************************************)
(* Model of the IRT analysis R service (src/r_service/plumber.R): the      *)
(* 3PL -> 2PL fallback of fit_irt_model, the model cache behind            *)
(* get_or_fit_model and the four request handlers that use it.             *)
(*                                                                         *)
(* Numbers are fixed-point integers in units of 0.00001 (1.0 = 100000),    *)
(* so that every threshold of the code and its nearest neighbours are      *)
(* exact.  R's NA is the value NA below; logical values that may be NA are *)
(* the strings "T", "F" and "N".                                           *)
(***************************************************************************)
EXTENDS Integers, Sequences, FiniteSets, TLC

\* ------------------------------------------------------------------ bounds

\* Number of request slots the server may be working on at once.
NumReqs == 2

Reqs == 1..NumReqs

\* Dataset identities (data_path values) and the absent data_path.
Keys == {"ds1", "ds2"}
NoPath == "NULL"

Ops == {"analyze", "icc", "iif", "testinfo"}

\* ------------------------------------------------------------------ values

\* R's NA for a numeric cell or coefficient: outside every value used.
NA == 0 - 2000000000

\* R's NULL, and a request slot's empty response.
NULL == [null |-> TRUE]

\* Thresholds of the plausibility check, in units of 0.00001.
A_HI == 1000000
A_LO == 1000
B_HI == 1000000
B_LO == -1000000
G_HI == 50000
G_LO == 0

\* validate_and_clean_data: fewest valid rows accepted.
MIN_VALID_ROWS == 10

\* ----------------------------------------------------- three-valued logic

\* x > y and x < y in R: NA when x is NA.
Gt3(x, y) == IF x = NA THEN "N" ELSE IF x > y THEN "T" ELSE "F"
Lt3(x, y) == IF x = NA THEN "N" ELSE IF x < y THEN "T" ELSE "F"

\* R's any() over logical values: TRUE if one is TRUE, else NA if one is NA.
\* The elementwise | of the code has the same truth table, so any() of the
\* | of the six comparison vectors is Any3 of all the comparisons.
Any3(S) == IF "T" \in S THEN "T" ELSE IF "N" \in S THEN "N" ELSE "F"

\* --------------------------------------------------------------- matrices

\* The raw tables a request may find at its data_path (2 items each).
RepRow(row, n) == [i \in 1..n |-> row]

RawTables ==
    [ ok10  |-> RepRow(<<0, 1>>, 5) \o RepRow(<<1, 0>>, 5),
      ok12  |-> <<<<1, 1>>>> \o RepRow(<<0, 1>>, 5) \o <<<<0, 0>>>>
                  \o RepRow(<<1, NA>>, 5),
      few9  |-> RepRow(<<0, 1>>, 9) \o <<<<1, 1>>, <<0, 0>>, <<NA, NA>>>>,
      bad   |-> RepRow(<<0, 1>>, 10) \o <<<<2, 0>>>> ]

TableIds == DOMAIN RawTables

\* rowSums(resp, na.rm = TRUE)
RECURSIVE RowSum(_)
RowSum(row) ==
    IF row = <<>> THEN 0
    ELSE (IF Head(row) = NA THEN 0 ELSE Head(row)) + RowSum(Tail(row))

\* all(unique_vals %in% c(0, 1, NA))
IsBinary(resp) ==
    \A i \in 1..Len(resp) : \A j \in 1..Len(resp[i]) : resp[i][j] \in {0, 1, NA}

\* valid_rows <- row_sums > 0 & row_sums < ncol(resp)
ValidRow(row) == RowSum(row) > 0 /\ RowSum(row) < Len(row)

\* CleanRows that also keeps the rows whose sum equals the item count.
CleanRowsKeepingAllCorrect(resp) ==
    SelectSeq(resp, LAMBDA row : RowSum(row) > 0 /\ RowSum(row) <= Len(row))

\* resp[valid_rows, , drop = FALSE]
CleanRows(resp) == SelectSeq(resp, ValidRow)

\* The values a cell of a table can hold, as read.csv prints them.
CellText == [v \in 0..2 |-> CASE v = 0 -> "0" [] v = 1 -> "1" [] OTHER -> "2"]

\* paste(sort(unique_vals), collapse = ", "): sort() drops NA.
RECURSIVE FoundFrom(_, _)
FoundFrom(resp, v) ==
    IF v > 2 THEN ""
    ELSE IF \E i \in 1..Len(resp) : \E j \in 1..Len(resp[i]) : resp[i][j] = v
         THEN IF FoundFrom(resp, v + 1) = "" THEN CellText[v]
              ELSE CellText[v] \o ", " \o FoundFrom(resp, v + 1)
         ELSE FoundFrom(resp, v + 1)

\* ValidateStatus without the test of the cell values.
ValidateStatusNoSchema(path, resp) ==
    IF path = NoPath THEN "data_path required"
    ELSE IF Len(CleanRows(resp)) < MIN_VALID_ROWS
         THEN "Not enough valid response patterns after filtering"
    ELSE "ok"

\* ValidateStatus that wants more than the minimum of valid rows.
ValidateStatusMoreThanMin(path, resp) ==
    IF path = NoPath THEN "data_path required"
    ELSE IF ~IsBinary(resp)
         THEN "Responses must be 0/1. Found: " \o FoundFrom(resp, 0)
    ELSE IF Len(CleanRows(resp)) <= MIN_VALID_ROWS
         THEN "Not enough valid response patterns after filtering"
    ELSE "ok"

\* validate_and_clean_data: the error element of the list it stops with, or
\* "ok".
ValidateStatus(path, resp) ==
    IF path = NoPath THEN "data_path required"
    ELSE IF ~IsBinary(resp)
         THEN "Responses must be 0/1. Found: " \o FoundFrom(resp, 0)
    ELSE IF Len(CleanRows(resp)) < MIN_VALID_ROWS
         THEN "Not enough valid response patterns after filtering"
    ELSE "ok"

\* stop(list(status = "error", error = msg)): stop() pastes the elements of
\* its argument together, so the condition's message is one string.
StopMessage(msg) == "error" \o msg

\* ------------------------------------------------------------ the engine

Item(a, b, g) == [a |-> a, b |-> b, g |-> g]

\* What the engine reports of a fit: item type, convergence, coefficients.
MkModel(t, c, items) == [itemtype |-> t, converged |-> c, items |-> items]

\* The fitted model object: the report and the data it was fitted to.
Fitted(m, t) ==
    [itemtype |-> m.itemtype, converged |-> m.converged, items |-> m.items,
     data |-> t]

NomItem == Item(100000, 0, 20000)

\* Item tables the engine may report for a 3PL fit: every threshold of the
\* plausibility check from both sides, and NA coefficients.
RichTables ==
    { <<NomItem, NomItem>>,
      <<Item(A_LO, B_LO, G_LO), Item(A_HI, B_HI, G_HI)>>,
      <<NomItem, Item(A_LO - 1, 0, 20000)>>,
      <<Item(A_HI + 1, 0, 20000), NomItem>>,
      <<NomItem, Item(100000, B_HI + 1, 20000)>>,
      <<Item(100000, B_LO - 1, 20000), NomItem>>,
      <<NomItem, Item(100000, 0, 70000)>>,
      <<NomItem, Item(100000, 0, G_LO - 1)>>,
      <<NomItem, Item(NA, 0, 20000)>>,
      <<Item(100000, NA, 20000), NomItem>>,
      <<NomItem, Item(100000, 0, NA)>>,
      <<Item(NA, 0, 20000), Item(100000, 0, 70000)>> }

\* What mirt(..., itemtype = "3PL") may do: raise (NULL after the tryCatch)
\* or return a model, converged or not.
RichOutcomes ==
    {NULL}
    \cup {MkModel("3PL", TRUE, t) : t \in RichTables}
    \cup {MkModel("3PL", FALSE, t) :
            t \in {<<NomItem, NomItem>>, <<NomItem, Item(100000, 0, 70000)>>}}

\* The 3PL outcomes used where several clients send requests: one of each verdict.
RichOutcomesSmall ==
    { NULL,
      MkModel("3PL", TRUE, <<NomItem, NomItem>>),
      MkModel("3PL", TRUE, <<NomItem, Item(100000, 0, 70000)>>),
      MkModel("3PL", FALSE, <<NomItem, NomItem>>),
      MkModel("3PL", TRUE, <<NomItem, Item(NA, 0, 20000)>>) }

SimItem == Item(120000, 50000, 0)

\* What mirt(..., itemtype = "2PL") may do: raise (NULL here) or return a
\* model, converged or not, with any coefficients.
SimpleOutcomes ==
    {NULL}
    \cup {MkModel("2PL", TRUE, <<SimItem, SimItem>>),
          MkModel("2PL", FALSE, <<SimItem, SimItem>>),
          MkModel("2PL", TRUE, <<Item(5000000, B_LO - 1000000, 0), SimItem>>),
          MkModel("2PL", TRUE, <<Item(NA, 50000, 0), Item(123456, NA, 0)>>)}

\* The 2PL outcomes used where several clients send requests.
SimpleOutcomesSmall ==
    { NULL,
      MkModel("2PL", TRUE, <<SimItem, SimItem>>),
      MkModel("2PL", FALSE, <<SimItem, SimItem>>) }

\* The raw tables used where several clients send requests.
TableIdsSmall == {"ok10", "few9"}

\* ----------------------------------------------------- plausibility check

\* ItemChecks without the upper guessing comparison.
ItemChecksNoGuessCap(it) ==
    { Gt3(it.a, A_HI), Lt3(it.a, A_LO),
      Gt3(it.b, B_HI), Lt3(it.b, B_LO),
      Lt3(it.g, G_LO) }

\* The six comparisons of one item row.
ItemChecks(it) ==
    { Gt3(it.a, A_HI), Lt3(it.a, A_LO),
      Gt3(it.b, B_HI), Lt3(it.b, B_LO),
      Gt3(it.g, G_HI), Lt3(it.g, G_LO) }

\* extreme_params <- any(...): "T", "F" or "N" (NA).
ExtremeParams(items) ==
    Any3(UNION {ItemChecks(items[i]) : i \in 1..Len(items)})

\* ------------------------------------------------------ numeric helpers

\* a doubled, modulo m.
Doubled(a, m) == (2 * a) % m

\* a doubled eight times, modulo m.
Doubled8(a, m) ==
    Doubled(Doubled(Doubled(Doubled(
        Doubled(Doubled(Doubled(Doubled(a, m), m), m), m), m), m), m), m)

\* a doubled k times, modulo m, eight doublings at a time while k allows;
\* 0 stays 0.
RECURSIVE DoubledMod(_, _, _)
DoubledMod(a, k, m) ==
    IF k = 0 \/ a = 0 THEN a
    ELSE IF k >= 8 THEN DoubledMod(Doubled8(a, m), k - 8, m)
    ELSE DoubledMod(Doubled(a, m), k - 1, m)

\* The doublings that take t up to unit.
RECURSIVE UpShifts(_, _)
UpShifts(t, unit) == IF t >= unit THEN 0 ELSE 1 + UpShifts(2 * t, unit)

\* The doublings of t that stay at or below m.
RECURSIVE DownShifts(_, _)
DownShifts(t, m) == IF t > m \div 2 THEN 0 ELSE 1 + DownShifts(2 * t, m)

\* The k for which (m / unit) * 2^k has 53 binary digits: the scaling of the
\* significand of the double that holds m / unit.
SignificandShift(m, unit) ==
    IF m >= unit THEN 52 - DownShifts(unit, m) ELSE 52 + UpShifts(m, unit)

\* What the double that holds m / unit has left out, in units of 1 / unit
\* of its last binary digit: 0 when m / unit is held exactly, more than
\* unit / 2 when the double is the next one above m / unit.
DoubleRemainder(m, unit) ==
    DoubledMod(m % unit, SignificandShift(m, unit), unit)

\* The double that holds m / unit less m / unit itself, in units of
\* 1 / (unit * 2^SignificandShift(m, unit)); 0 is held exactly.
DoubleError(m, unit) ==
    IF m = 0 THEN 0
    ELSE LET r == DoubleRemainder(m, unit)
         IN  IF 2 * r < unit THEN 0 - r ELSE unit - r

\* The choice of round() between its two candidates for a decimal m / unit
\* that ends in 5: x is the double of m / unit, xd and xu are the doubles of
\* the decimals next below and next above, and the lower one is taken when
\* dd = x - xd is less than du = xu - x, or equal to it with an even last
\* digit.  Both differences are exact in double arithmetic, and the
\* decimals themselves lie at equal distances, so the three errors of
\* representation decide, brought to the finest of the three scalings.
TieDown(m, unit) ==
    LET q   == m \div 10
        kx  == SignificandShift(m, unit)
        ku  == SignificandShift(m + 5, unit)
        kd  == IF q = 0 THEN kx ELSE SignificandShift(m - 5, unit)
        ex  == DoubleError(m, unit) * 2^(kd - kx)
        eu  == DoubleError(m + 5, unit) * 2^(kd - ku)
        ed  == DoubleError(m - 5, unit)
    IN  2 * ex < ed + eu \/ (2 * ex = ed + eu /\ q % 2 = 0)

\* round(x, digits) of the double that holds x / unit, x in units one
\* decimal finer than digits: one of the two multiples of 10 around x, the
\* nearer one, and for a decimal that ends in 5 the one whose double is
\* nearer to the double of x, the even one when they are equally near; NA
\* stays NA.
RoundStep(x, unit) ==
    IF x = NA THEN NA
    ELSE LET m  == IF x < 0 THEN 0 - x ELSE x
             q  == m \div 10
             d  == m % 10
             up == IF d # 5 THEN d > 5 ELSE ~TieDown(m, unit)
             v  == (IF up THEN q + 1 ELSE q) * 10
         IN  IF x < 0 THEN 0 - v ELSE v

\* round(x, 4) of a coefficient or standard error (units of 0.00001).
Round4(x) == RoundStep(x, 100000)

\* round(x, 8) of an information value (units of 0.000000001).
Round8(x) == RoundStep(x, 1000000000)

\* ------------------------------------------------------- the ability grid

\* theta <- seq(-4, 4, length.out = 101)
GRID_POINTS == 101
THETA_LO == -400000
THETA_HI == 400000

\* The grid of seq(-4, 4, length.out = 100), to the nearest unit.
ThetaHundred ==
    [i \in 1..(GRID_POINTS - 1) |->
        THETA_LO + ((i - 1) * (THETA_HI - THETA_LO)) \div (GRID_POINTS - 2)]

\* round(theta, 6): the grid points are exact in units of 0.00001.
Theta ==
    [i \in 1..GRID_POINTS |->
        THETA_LO + ((i - 1) * (THETA_HI - THETA_LO)) \div (GRID_POINTS - 1)]

\* rep(NA, length(theta))
NaCurve == [i \in 1..Len(Theta) |-> NA]

\* What testinfo() or iteminfo() returns over the grid when it does not
\* raise: one information value per grid point, finer than 8 decimals.
EngineCurve == [i \in 1..GRID_POINTS |-> 250000000 + 7 * i]

\* The correct-response column of probtrace() over the grid: one probability
\* per grid point, finer than 8 decimals.
ProbCurve == [i \in 1..GRID_POINTS |-> 400000000 + 1000003 * i]

\* req$body$item_id of /icc: absent, an item of the model, an item the model
\* does not have, or no item id at all.
NoItemId == "NULL"
ItemIdArgs == {NoItemId, "item_1", "item_2", "item_3", "first"}
ItemIdArgsSmall == {NoItemId, "item_2"}

\* as.numeric(gsub("item_", "", item_id)): NA when what is left is no number.
ItemIndex(item_id) ==
    CASE item_id = "item_1" -> 1
      [] item_id = "item_2" -> 2
      [] item_id = "item_3" -> 3
      [] OTHER -> NA

\* testinfo(model, Theta = matrix(theta)): raises (NULL here) or returns.
TifOutcomes == {NULL, EngineCurve}

\* The sets of items (of 2) for which extract.item() or iteminfo() raises.
FailSets == SUBSET {1, 2}
FailSetsSmall == {{}}

\* paste0("item_", i)
ItemId(i) == "item_" \o (CASE i = 1 -> "1" [] i = 2 -> "2" [] OTHER -> "3")

\* -------------------------------------------------------- standard errors

\* One element of coef(model, SE = TRUE, printSE = TRUE): the item's matrix
\* has the standard errors in its second row, or has one row only.
SeItem(a, b, g) == [rows |-> 2, a |-> a, b |-> b, g |-> g]
NoSeItem == [rows |-> 1]

\* What coef(..., printSE = TRUE) may do on a 2-item model: raise (NULL
\* here) or return per-item matrices, with or without standard errors.
SeOutcomes ==
    { NULL,
      <<SeItem(12344, 23456, 3454), SeItem(10000, 20000, 5000)>>,
      <<SeItem(12344, NA, NA), NoSeItem>> }

\* The outcomes used where two processes interleave: the guarded calls made
\* after the fit all return.
SeOutcomesSmall == { <<SeItem(12344, 23456, 3454), NoSeItem>> }
TifOutcomesSmall == {EngineCurve}

\* extract_standard_errors: NULL when coef raised, else the matrix of
\* standard errors, NA where the item has none; column g only for 3PL.
ExtractStandardErrors(co, model_type) ==
    IF co = NULL THEN NULL
    ELSE [i \in 1..Len(co) |->
            IF co[i].rows >= 2
            THEN IF model_type = "3PL"
                 THEN [a |-> co[i].a, b |-> co[i].b, g |-> co[i].g]
                 ELSE [a |-> co[i].a, b |-> co[i].b]
            ELSE IF model_type = "3PL"
                 THEN [a |-> NA, b |-> NA, g |-> NA]
                 ELSE [a |-> NA, b |-> NA]]

\* SeOrZeros with the fallback matrix filled with 1 instead of 0.
SeOrOnes(se, model_type, n) ==
    IF se # NULL THEN se
    ELSE [i \in 1..n |->
            IF model_type = "3PL"
            THEN [a |-> 100000, b |-> 100000, g |-> 100000]
            ELSE [a |-> 100000, b |-> 100000]]

\* The handler's fallback when extract_standard_errors returned NULL: a
\* matrix of zeros with the columns of the model type.
SeOrZeros(se, model_type, n) ==
    IF se # NULL THEN se
    ELSE [i \in 1..n |->
            IF model_type = "3PL" THEN [a |-> 0, b |-> 0, g |-> 0]
            ELSE [a |-> 0, b |-> 0]]

\* ---------------------------------------------------- parameter extraction

\* ExtractRow without the ifelse(is.na(.), ...) defaults of the tibble.
ExtractRowKeepingNA(i, row, se, model_type, mt) ==
    LET g    == IF model_type = "3PL" /\ "g" \in DOMAIN row
                THEN row.g ELSE 0
        has  == se # NULL /\ Len(se) >= i
        se_a == IF has /\ "a" \in DOMAIN se[i] /\ se[i].a # NA
                THEN se[i].a ELSE NA
        se_b == IF has /\ "b" \in DOMAIN se[i] /\ se[i].b # NA
                THEN se[i].b ELSE NA
        se_g == IF has /\ model_type = "3PL" /\ "g" \in DOMAIN se[i]
                   /\ se[i].g # NA
                THEN se[i].g ELSE 0
    IN  [item_id           |-> ItemId(i),
         discrimination    |-> Round4(row.a),
         difficulty        |-> Round4(row.b),
         guessing          |-> Round4(g),
         se_discrimination |-> Round4(se_a),
         se_difficulty     |-> Round4(se_b),
         se_guessing       |-> Round4(se_g),
         model_type        |-> mt]

\* One row of extract_item_params, every row reporting model type mt.
ExtractRow(i, row, se, model_type, mt) ==
    LET g    == IF model_type = "3PL" /\ "g" \in DOMAIN row
                THEN row.g ELSE 0
        has  == se # NULL /\ Len(se) >= i
        se_a == IF has /\ "a" \in DOMAIN se[i] /\ se[i].a # NA
                THEN se[i].a ELSE NA
        se_b == IF has /\ "b" \in DOMAIN se[i] /\ se[i].b # NA
                THEN se[i].b ELSE NA
        se_g == IF has /\ model_type = "3PL" /\ "g" \in DOMAIN se[i]
                   /\ se[i].g # NA
                THEN se[i].g ELSE 0
    IN  [item_id           |-> ItemId(i),
         discrimination    |-> IF row.a = NA THEN 100000 ELSE Round4(row.a),
         difficulty        |-> IF row.b = NA THEN 0 ELSE Round4(row.b),
         guessing          |-> Round4(g),
         se_discrimination |-> IF se_a = NA THEN 0 ELSE Round4(se_a),
         se_difficulty     |-> IF se_b = NA THEN 0 ELSE Round4(se_b),
         se_guessing       |-> Round4(se_g),
         model_type        |-> mt]

\* extract_item_params called without its model_type argument: the default
\* "3PL" decides the guessing columns and the reported type.
ExtractItemParamsDefaultType(params_table, params_se_table, model_type) ==
    [i \in 1..Len(params_table) |->
        ExtractRow(i, params_table[i], params_se_table, "3PL", "3PL")]

\* extract_item_params
ExtractItemParams(params_table, params_se_table, model_type) ==
    [i \in 1..Len(params_table) |->
        ExtractRow(i, params_table[i], params_se_table, model_type,
                   model_type)]

\* ------------------------------------------------------ parameter cleaning

\* Bounds of clean_parameters, in units of 0.00001.
CLEAN_A_HI == 400000
CLEAN_A_LO == 10000
CLEAN_B_LO == -400000
CLEAN_B_HI == 400000
CLEAN_G_LO == 0
CLEAN_G_HI == 50000

\* The three discrimination steps of clean_parameters, in the code's order.
FixNegative(d) == IF d # NA /\ d < 0 THEN 0 - d ELSE d
CapHigh(d) == IF d # NA /\ d > CLEAN_A_HI THEN CLEAN_A_HI ELSE d
FloorLow(d) == IF d # NA /\ d < CLEAN_A_LO THEN CLEAN_A_LO ELSE d

\* The two difficulty steps.
CleanDifficulty(b) ==
    LET b1 == IF b # NA /\ b < CLEAN_B_LO THEN CLEAN_B_LO ELSE b
    IN  IF b1 # NA /\ b1 > CLEAN_B_HI THEN CLEAN_B_HI ELSE b1

\* The two guessing steps, taken for 3PL only.
CleanGuessing(g, model_type) ==
    IF model_type # "3PL" THEN g
    ELSE LET g1 == IF g # NA /\ g < CLEAN_G_LO THEN CLEAN_G_LO ELSE g
         IN  IF g1 # NA /\ g1 > CLEAN_G_HI THEN CLEAN_G_HI ELSE g1

\* One pass of the loop body of clean_parameters over row p.
CleanRowWith(p, d, model_type) ==
    [p EXCEPT !.discrimination = d,
              !.difficulty = CleanDifficulty(p.difficulty),
              !.guessing = CleanGuessing(p.guessing, model_type)]

\* clean_parameters without its first step: a negative discrimination is
\* never made positive.
CleanParametersNoAbs(item_params, model_type) ==
    [i \in 1..Len(item_params) |->
        CleanRowWith(item_params[i],
                     FloorLow(CapHigh(item_params[i].discrimination)),
                     model_type)]

\* clean_parameters with the cap taken before the absolute value.
CleanParametersCapFirst(item_params, model_type) ==
    [i \in 1..Len(item_params) |->
        CleanRowWith(item_params[i],
                     FloorLow(FixNegative(CapHigh(
                         item_params[i].discrimination))),
                     model_type)]

\* clean_parameters
CleanParameters(item_params, model_type) ==
    [i \in 1..Len(item_params) |->
        CleanRowWith(item_params[i],
                     FloorLow(CapHigh(FixNegative(
                         item_params[i].discrimination))),
                     model_type)]

\* ------------------------------------------------------------------ state

VARIABLES
    cache,       \* irt_model_cache: data_path -> fit result, or NULL
    pc,          \* each request's position in its handler
    op,          \* the endpoint a request came in on
    key,         \* its data_path
    tbl,         \* the raw table read.csv found at its data_path
    calls,       \* the engine calls its current fit has made, in order
    model_3pl,   \* fit_irt_model's model_3pl
    model_2pl,   \* fit_irt_model's model_2pl
    fit_result,  \* the handler's fit_result
    response,    \* the payload it returned
    script,      \* a run of the standalone script r_scripts/irt_analysis.R
    cleaning,    \* a parameter table going through clean_parameters
    upload,      \* the upload page (FileUpload.tsx) and its requests
    chart        \* a chart component (ICCCurve.tsx) and its requests

vars == <<cache, pc, op, key, tbl, calls, model_3pl, model_2pl, fit_result,
          response, script, cleaning, upload, chart>>

\* The variables of the R service, of the script and of the cleaning pass.
backend == <<cache, pc, op, key, tbl, calls, model_3pl, model_2pl, fit_result,
             response, script, cleaning>>

FitResult(m, t) == [model |-> m, type |-> t]

\* What a handler's error function makes of a condition with message msg.
\* /analyze evaluates e$message$error on that string, which raises inside the
\* error function: the condition leaves the handler unhandled.  /iif prefixes
\* the message; /icc and /testinfo pass it on.
ErrorPayload(o, msg) ==
    CASE o = "analyze" ->
           [status |-> "unhandled",
            error |-> "$ operator is invalid for atomic vectors"]
      [] o = "iif" ->
           [status |-> "error", error |-> "IIF calculation failed: " \o msg]
      [] OTHER -> [status |-> "error", error |-> msg]

\* The script before it is run: nothing read, fitted or written.
ScriptIdle ==
    [pc |-> "idle", tbl |-> "none", calls |-> <<>>, model_3pl |-> NULL,
     model_2pl |-> NULL, fit_result |-> NULL, results |-> NULL, exit |-> 0]

\* No parameter table is being cleaned.
NoCleaning ==
    [impl |-> "none", model_type |-> "none", input |-> <<>>,
     item_params |-> <<>>, passes |-> 0]

\* The service after plumber has loaded plumber.R: an empty cache, no
\* request in progress.
ServiceInit ==
    /\ cache = [k \in Keys |-> NULL]
    /\ pc = [r \in Reqs |-> "idle"]
    /\ op = [r \in Reqs |-> "none"]
    /\ key = [r \in Reqs |-> NoPath]
    /\ tbl = [r \in Reqs |-> "none"]
    /\ calls = [r \in Reqs |-> <<>>]
    /\ model_3pl = [r \in Reqs |-> NULL]
    /\ model_2pl = [r \in Reqs |-> NULL]
    /\ fit_result = [r \in Reqs |-> NULL]
    /\ response = [r \in Reqs |-> NULL]

\* useState<string | null>(null)
NoError == "null"

\* useState<File | null>(null)
NoFile == "null"

\* The route the upload page is shown under.
UploadRoute == "/"

\* The upload page as it is mounted: the initial values of its useState
\* calls, nothing in flight, nothing sent.
UploadMounted ==
    [location |-> UploadRoute, isUploading |-> FALSE,
     isLoadingSample |-> FALSE, error |-> NoError, selectedFile |-> NoFile,
     pending |-> {}, requests |-> <<>>]

\* No chart component is mounted.
NoChart ==
    [kind |-> "none", sessionId |-> "", data |-> "null", loading |-> FALSE,
     error |-> NoError, pending |-> {}, fetches |-> 0]

Init ==
    /\ ServiceInit
    /\ script = ScriptIdle
    /\ cleaning = NoCleaning
    /\ upload = UploadMounted
    /\ chart = NoChart

\* Fail that leaves a model-less entry in the cache under the request's key.
FailCachingNothing(r, o, msg) ==
    /\ pc' = [pc EXCEPT ![r] = "done"]
    /\ response' = [response EXCEPT ![r] = ErrorPayload(o, msg)]
    /\ model_3pl' = [model_3pl EXCEPT ![r] = NULL]
    /\ model_2pl' = [model_2pl EXCEPT ![r] = NULL]
    /\ fit_result' = [fit_result EXCEPT ![r] = NULL]
    /\ cache' = [k \in Keys |->
                   IF k = key[r] THEN [model |-> NULL, type |-> "2PL"]
                   ELSE cache[k]]

\* The handler's tryCatch: an error anywhere in it ends the request with what
\* the error function of endpoint o makes of it; nothing is assigned to the
\* cache on that path.
Fail(r, o, msg) ==
    /\ pc' = [pc EXCEPT ![r] = "done"]
    /\ response' = [response EXCEPT ![r] = ErrorPayload(o, msg)]
    /\ model_3pl' = [model_3pl EXCEPT ![r] = NULL]
    /\ model_2pl' = [model_2pl EXCEPT ![r] = NULL]
    /\ fit_result' = [fit_result EXCEPT ![r] = NULL]
    /\ UNCHANGED cache

\* The R process runs one handler at a time: request r is taken up only when
\* no other request is inside its handler.
NoHandlerRunning(r) == \A q \in Reqs \ {r} : pc[q] \in {"idle", "done"}

\* Request that looks for a cached model first and validates the table only
\* when there is none.
RequestCacheFirst(r, tables) ==
    /\ pc[r] = "idle"
    /\ NoHandlerRunning(r)
    /\ \E o \in Ops, k \in Keys \cup {NoPath}, t \in tables :
        /\ op' = [op EXCEPT ![r] = o]
        /\ key' = [key EXCEPT ![r] = k]
        /\ tbl' = [tbl EXCEPT ![r] = t]
        /\ IF (k # NoPath /\ cache[k] # NULL)
              \/ ValidateStatus(k, RawTables[t]) = "ok"
           THEN /\ pc' = [pc EXCEPT ![r] = "lookup"]
                /\ UNCHANGED <<cache, model_3pl, model_2pl, fit_result,
                               response>>
           ELSE Fail(r, o, StopMessage(ValidateStatus(k, RawTables[t])))
    /\ UNCHANGED calls
    /\ UNCHANGED <<script, cleaning, upload, chart>>

\* A request is taken up and its handler runs validate_and_clean_data.
Request(r, tables) ==
    /\ pc[r] = "idle"
    /\ NoHandlerRunning(r)
    /\ \E o \in Ops, k \in Keys \cup {NoPath}, t \in tables :
        /\ op' = [op EXCEPT ![r] = o]
        /\ key' = [key EXCEPT ![r] = k]
        /\ tbl' = [tbl EXCEPT ![r] = t]
        /\ IF ValidateStatus(k, RawTables[t]) = "ok"
           THEN /\ pc' = [pc EXCEPT ![r] = "lookup"]
                /\ UNCHANGED <<cache, model_3pl, model_2pl, fit_result,
                               response>>
           ELSE Fail(r, o, StopMessage(ValidateStatus(k, RawTables[t])))
    /\ UNCHANGED calls
    /\ UNCHANGED <<script, cleaning, upload, chart>>

\* Lookup without the exists() test: every request fits.
LookupNeverHits(r) ==
    /\ pc[r] = "lookup"
    /\ pc' = [pc EXCEPT ![r] = "AttemptingRich"]
    /\ UNCHANGED <<cache, op, key, tbl, calls, model_3pl, model_2pl,
                   fit_result, response>>
    /\ UNCHANGED <<script, cleaning, upload, chart>>

\* Lookup that takes an entry only if it was fitted to the same table.
LookupSameData(r) ==
    /\ pc[r] = "lookup"
    /\ IF cache[key[r]] # NULL /\ cache[key[r]].model.data = tbl[r]
       THEN /\ fit_result' = [fit_result EXCEPT ![r] = cache[key[r]]]
            /\ pc' = [pc EXCEPT ![r] = "respond"]
       ELSE /\ pc' = [pc EXCEPT ![r] = "AttemptingRich"]
            /\ UNCHANGED fit_result
    /\ UNCHANGED <<cache, op, key, tbl, calls, model_3pl, model_2pl, response>>
    /\ UNCHANGED <<script, cleaning, upload, chart>>

\* get_or_fit_model: the exists() test, and on a hit the get().
Lookup(r) ==
    /\ pc[r] = "lookup"
    /\ IF cache[key[r]] # NULL
       THEN /\ fit_result' = [fit_result EXCEPT ![r] = cache[key[r]]]
            /\ pc' = [pc EXCEPT ![r] = "respond"]
       ELSE /\ pc' = [pc EXCEPT ![r] = "AttemptingRich"]
            /\ UNCHANGED fit_result
    /\ UNCHANGED <<cache, op, key, tbl, calls, model_3pl, model_2pl, response>>
    /\ UNCHANGED <<script, cleaning, upload, chart>>

\* fit_irt_model, first attempt: mirt(..., itemtype = "3PL") inside tryCatch.
RichCall(r, outcomes) ==
    /\ pc[r] = "AttemptingRich"
    /\ \E m \in outcomes :
        model_3pl' = [model_3pl EXCEPT ![r] =
                        IF m = NULL THEN NULL ELSE Fitted(m, tbl[r])]
    /\ calls' = [calls EXCEPT ![r] = Append(@, "3PL")]
    /\ pc' = [pc EXCEPT ![r] = "inspect"]
    /\ UNCHANGED <<cache, op, key, tbl, model_2pl, fit_result, response>>
    /\ UNCHANGED <<script, cleaning, upload, chart>>

\* RichVerdict with the test of extreme_params inverted.
RichVerdictInverted(m) ==
    IF m # NULL /\ m.converged
    THEN CASE ExtremeParams(m.items) = "F" -> "AttemptingSimple"
           [] ExtremeParams(m.items) = "T" -> "RichAccepted"
           [] OTHER -> "error"
    ELSE "AttemptingSimple"

\* RichVerdict without the tryCatch around the 3PL call: a raise is an error.
RichVerdictNoCatch(m) ==
    IF m = NULL THEN "error"
    ELSE IF m.converged
    THEN CASE ExtremeParams(m.items) = "F" -> "RichAccepted"
           [] ExtremeParams(m.items) = "T" -> "AttemptingSimple"
           [] OTHER -> "error"
    ELSE "AttemptingSimple"

\* RichVerdict that tries the 3PL fit again when it did not converge.
RichVerdictRetry(m) ==
    IF m # NULL /\ m.converged
    THEN CASE ExtremeParams(m.items) = "F" -> "RichAccepted"
           [] ExtremeParams(m.items) = "T" -> "AttemptingSimple"
           [] OTHER -> "error"
    ELSE IF m # NULL THEN "AttemptingRich" ELSE "AttemptingSimple"

\* The decision of fit_irt_model after the 3PL attempt: the position the
\* function goes to, or "error" when if (!extreme_params) meets NA.
RichVerdict(m) ==
    IF m # NULL /\ m.converged
    THEN CASE ExtremeParams(m.items) = "F" -> "RichAccepted"
           [] ExtremeParams(m.items) = "T" -> "AttemptingSimple"
           [] OTHER -> "error"
    ELSE "AttemptingSimple"

Inspect(r) ==
    /\ pc[r] = "inspect"
    /\ IF RichVerdict(model_3pl[r]) = "error"
       THEN Fail(r, op[r], "missing value where TRUE/FALSE needed")
       ELSE /\ pc' = [pc EXCEPT ![r] = RichVerdict(model_3pl[r])]
            /\ UNCHANGED <<cache, model_3pl, model_2pl, fit_result, response>>
    /\ UNCHANGED <<op, key, tbl, calls>>
    /\ UNCHANGED <<script, cleaning, upload, chart>>

\* SimpleCall that treats a 2PL model that did not converge as a failure.
SimpleCallConvergedOnly(r, outcomes) ==
    /\ pc[r] = "AttemptingSimple"
    /\ calls' = [calls EXCEPT ![r] = Append(@, "2PL")]
    /\ \E m \in outcomes :
        IF m = NULL \/ ~m.converged
        THEN Fail(r, op[r], "2PL estimation failed")
        ELSE /\ model_2pl' = [model_2pl EXCEPT ![r] = Fitted(m, tbl[r])]
             /\ pc' = [pc EXCEPT ![r] = "SimpleAccepted"]
             /\ UNCHANGED <<cache, model_3pl, fit_result, response>>
    /\ UNCHANGED <<op, key, tbl>>
    /\ UNCHANGED <<script, cleaning, upload, chart>>

\* fit_irt_model, fallback: mirt(..., itemtype = "2PL"), not in a tryCatch.
SimpleCall(r, outcomes) ==
    /\ pc[r] = "AttemptingSimple"
    /\ calls' = [calls EXCEPT ![r] = Append(@, "2PL")]
    /\ \E m \in outcomes :
        IF m = NULL
        THEN Fail(r, op[r], "2PL estimation failed")
        ELSE /\ model_2pl' = [model_2pl EXCEPT ![r] = Fitted(m, tbl[r])]
             /\ pc' = [pc EXCEPT ![r] = "SimpleAccepted"]
             /\ UNCHANGED <<cache, model_3pl, fit_result, response>>
    /\ UNCHANGED <<op, key, tbl>>
    /\ UNCHANGED <<script, cleaning, upload, chart>>

\* FitReturn that hands back model_3pl on the fallback path too.
FitReturnWrongModel(r) ==
    IF pc[r] = "RichAccepted"
    THEN FitResult(model_3pl[r], "3PL")
    ELSE FitResult(model_3pl[r], "2PL")

\* What fit_irt_model returns from its two return statements.
FitReturn(r) ==
    IF pc[r] = "RichAccepted"
    THEN FitResult(model_3pl[r], "3PL")
    ELSE FitResult(model_2pl[r], "2PL")

\* Store without the assign(): the result is returned and not kept.
StoreNothing(r) ==
    /\ pc[r] \in {"RichAccepted", "SimpleAccepted"}
    /\ fit_result' = [fit_result EXCEPT ![r] = FitReturn(r)]
    /\ model_3pl' = [model_3pl EXCEPT ![r] = NULL]
    /\ model_2pl' = [model_2pl EXCEPT ![r] = NULL]
    /\ pc' = [pc EXCEPT ![r] = "respond"]
    /\ UNCHANGED <<cache, op, key, tbl, calls, response>>
    /\ UNCHANGED <<script, cleaning, upload, chart>>

\* Store into a cache that keeps the newest entry only.
StoreEvictingOthers(r) ==
    /\ pc[r] \in {"RichAccepted", "SimpleAccepted"}
    /\ fit_result' = [fit_result EXCEPT ![r] = FitReturn(r)]
    /\ cache' = [k \in Keys |-> IF k = key[r] THEN FitReturn(r) ELSE NULL]
    /\ model_3pl' = [model_3pl EXCEPT ![r] = NULL]
    /\ model_2pl' = [model_2pl EXCEPT ![r] = NULL]
    /\ pc' = [pc EXCEPT ![r] = "respond"]
    /\ UNCHANGED <<op, key, tbl, calls, response>>
    /\ UNCHANGED <<script, cleaning, upload, chart>>

\* Store into a cache that holds one model for all keys.
StoreUnderEveryKey(r) ==
    /\ pc[r] \in {"RichAccepted", "SimpleAccepted"}
    /\ fit_result' = [fit_result EXCEPT ![r] = FitReturn(r)]
    /\ cache' = [k \in Keys |-> FitReturn(r)]
    /\ model_3pl' = [model_3pl EXCEPT ![r] = NULL]
    /\ model_2pl' = [model_2pl EXCEPT ![r] = NULL]
    /\ pc' = [pc EXCEPT ![r] = "respond"]
    /\ UNCHANGED <<op, key, tbl, calls, response>>
    /\ UNCHANGED <<script, cleaning, upload, chart>>

\* get_or_fit_model after the fit: assign() into the cache, return the result.
Store(r) ==
    /\ pc[r] \in {"RichAccepted", "SimpleAccepted"}
    /\ fit_result' = [fit_result EXCEPT ![r] = FitReturn(r)]
    /\ cache' = [cache EXCEPT ![key[r]] = FitReturn(r)]
    /\ model_3pl' = [model_3pl EXCEPT ![r] = NULL]
    /\ model_2pl' = [model_2pl EXCEPT ![r] = NULL]
    /\ pc' = [pc EXCEPT ![r] = "respond"]
    /\ UNCHANGED <<op, key, tbl, calls, response>>
    /\ UNCHANGED <<script, cleaning, upload, chart>>

\* tryCatch(testinfo(...), error = function(e) NA): one NA, not a curve.
TestInfoOrSingleNA(tif) == IF tif = NULL THEN <<NA>> ELSE tif

\* tryCatch(testinfo(model, Theta = matrix(theta)),
\*          error = function(e) rep(NA, length(theta)))
TestInfoOrNA(tif) == IF tif = NULL THEN NaCurve ELSE tif

\* The vectors the handlers round: what the engine returns for an item or
\* for the test, and the NA vector of a caught raise.
CurveOutcomes == {NaCurve, EngineCurve, ProbCurve}

\* round(x, 8) of each of these vectors, element by element.
RoundedCurves == [c \in CurveOutcomes |-> [i \in 1..Len(c) |-> Round8(c[i])]]

\* round(x, 8) over a vector.
RoundCurve(c) ==
    IF c \in CurveOutcomes THEN RoundedCurves[c]
    ELSE [i \in 1..Len(c) |-> Round8(c[i])]

\* /iif, one item: the inner tryCatch turns a raise of extract.item or
\* iteminfo into a frame of NA values for that item.
ItemInfoFrame(i, failing) ==
    [item_id |-> ItemId(i),
     theta   |-> Theta,
     iif     |-> IF i \in failing THEN NaCurve ELSE RoundCurve(EngineCurve)]

\* /icc, one item of the all-items answer.
ItemProbFrame(i) ==
    [item_id     |-> ItemId(i),
     theta       |-> Theta,
     probability |-> RoundCurve(ProbCurve)]

\* /icc with an item_id: the curve of that item alone.
IccItemPayload(item_id) ==
    [status |-> "success", theta |-> Theta,
     probability |-> RoundCurve(ProbCurve), item_id |-> item_id]

\* The item parameters of /analyze: extraction, the zero matrix when the
\* standard errors could not be extracted, then cleaning.
ItemParameters(fr, co) ==
    CleanParameters(
        ExtractItemParams(
            fr.model.items,
            SeOrZeros(ExtractStandardErrors(co, fr.type), fr.type,
                      Len(fr.model.items)),
            fr.type),
        fr.type)

\* The success payload of a handler, from its endpoint, its fit_result, the
\* matrix read, the cleaned matrix and what the engine did on the handler's later calls: co
\* for coef(..., printSE = TRUE), tif for testinfo(), failing for the items
\* whose extract.item() or iteminfo() raised.
Payload(o, fr, resp, resp_clean, co, tif, failing) ==
    CASE o = "analyze" ->
           [status |-> "success", analysis_type |-> fr.type,
            converged |-> fr.model.converged,
            data_summary |->
                [n_students |-> Len(resp_clean),
                 n_items |-> Len(resp_clean[1]),
                 original_students |-> Len(resp)],
            item_parameters |-> ItemParameters(fr, co),
            test_information |->
                [theta |-> Theta,
                 information |-> RoundCurve(TestInfoOrNA(tif))]]
      [] o = "iif" ->
           [status |-> "success",
            iif_data |-> [i \in 1..Len(resp_clean[1]) |->
                             ItemInfoFrame(i, failing)]]
      [] o = "testinfo" ->
           [status |-> "success", theta |-> Theta,
            information |-> RoundCurve(TestInfoOrNA(tif))]
      [] OTHER ->
           [status |-> "success",
            icc_data |-> [i \in 1..Len(resp_clean[1]) |-> ItemProbFrame(i)]]

\* The engine calls each endpoint makes after the fit: coef(..., printSE)
\* in /analyze, testinfo() in /analyze and /testinfo, extract.item() and
\* iteminfo() inside an inner tryCatch in /iif, and calls in no inner
\* tryCatch (coef, logLik, probtrace) in /analyze and /icc.
SeCalls(o, seOuts) == IF o = "analyze" THEN seOuts ELSE {NULL}
TifCalls(o, tifOuts) ==
    IF o \in {"analyze", "testinfo"} THEN tifOuts ELSE {NULL}
ItemCalls(o, failSets) == IF o = "iif" THEN failSets ELSE {{}}
UnguardedCalls(o) == IF o \in {"analyze", "icc"} THEN BOOLEAN ELSE {FALSE}
ItemArgs(o, itemIds) == IF o = "icc" THEN itemIds ELSE {NoItemId}

\* extract.item(model, idx) raises when the model has no item idx.
NoSuchItem(item_id, n) ==
    item_id # NoItemId /\ ItemIndex(item_id) \notin 1..n

\* The rest of the handler once get_or_fit_model has returned.
Respond(r, seOuts, tifOuts, failSets, itemIds) ==
    /\ pc[r] = "respond"
    /\ \E co \in SeCalls(op[r], seOuts), tif \in TifCalls(op[r], tifOuts),
          failing \in ItemCalls(op[r], failSets),
          raises \in UnguardedCalls(op[r]),
          item_id \in ItemArgs(op[r], itemIds) :
        IF raises \/ NoSuchItem(item_id, Len(fit_result[r].model.items))
        THEN Fail(r, op[r], "engine call failed")
        ELSE /\ response' = [response EXCEPT ![r] =
                                IF item_id # NoItemId
                                THEN IccItemPayload(item_id)
                                ELSE Payload(op[r], fit_result[r],
                                             RawTables[tbl[r]],
                                             CleanRows(RawTables[tbl[r]]),
                                             co, tif, failing)]
             /\ pc' = [pc EXCEPT ![r] = "done"]
             /\ UNCHANGED <<cache, model_3pl, model_2pl, fit_result>>
    /\ UNCHANGED <<op, key, tbl, calls>>
    /\ UNCHANGED <<script, cleaning, upload, chart>>

\* The payload is sent and the request is over.
Finish(r) ==
    /\ pc[r] = "done"
    /\ pc' = [pc EXCEPT ![r] = "idle"]
    /\ op' = [op EXCEPT ![r] = "none"]
    /\ key' = [key EXCEPT ![r] = NoPath]
    /\ tbl' = [tbl EXCEPT ![r] = "none"]
    /\ calls' = [calls EXCEPT ![r] = <<>>]
    /\ model_3pl' = [model_3pl EXCEPT ![r] = NULL]
    /\ model_2pl' = [model_2pl EXCEPT ![r] = NULL]
    /\ fit_result' = [fit_result EXCEPT ![r] = NULL]
    /\ response' = [response EXCEPT ![r] = NULL]
    /\ UNCHANGED cache
    /\ UNCHANGED <<script, cleaning, upload, chart>>

\* The server with several clients: a request waits until the handler before
\* it has returned, and a client may still hold its answer meanwhile.
Next ==
    \E r \in Reqs :
        \/ Request(r, TableIdsSmall)
        \/ Lookup(r)
        \/ RichCall(r, RichOutcomesSmall)
        \/ Inspect(r)
        \/ SimpleCall(r, SimpleOutcomesSmall)
        \/ Store(r)
        \/ Respond(r, SeOutcomesSmall, TifOutcomesSmall, FailSetsSmall,
                   ItemIdArgsSmall)
        \/ Finish(r)

Spec == Init /\ [][Next]_vars

\* The server taking one request at a time, over every table and every
\* engine outcome.
NextSeq ==
    \E r \in {1} :
        \/ Request(r, TableIds)
        \/ Lookup(r)
        \/ RichCall(r, RichOutcomes)
        \/ Inspect(r)
        \/ SimpleCall(r, SimpleOutcomes)
        \/ Store(r)
        \/ Respond(r, SeOutcomes, TifOutcomes, FailSets, ItemIdArgs)
        \/ Finish(r)

SeqSpec == Init /\ [][NextSeq]_vars

\* A step of fit_irt_model.  R runs the function to its end and each mirt
\* call returns or raises within its NCYCLES budget.
FitStep(r) ==
    \/ RichCall(r, RichOutcomes)
    \/ Inspect(r)
    \/ SimpleCall(r, SimpleOutcomes)

FairSeqSpec == SeqSpec /\ \A r \in {1} : WF_vars(FitStep(r))

\* ------------------------------------------------- the standalone script

\* perform_irt_analysis: the row filter, with no test of the cell values.
ScriptCleanRows(responses) == SelectSeq(responses, ValidRow)

\* The thresholds of the script's 3PL test, in units of 0.00001.
SCRIPT_A_HI == 1000000
SCRIPT_A_LO == 1000
SCRIPT_B_HI == 1000000
SCRIPT_B_LO == -1000000
SCRIPT_G_HI == 50000
SCRIPT_G_LO == 0

\* extreme_params of fit_irt_model_standalone: any() over the six
\* comparisons of every row.
ScriptExtremeParams(items) ==
    Any3(UNION { { Gt3(items[i].a, SCRIPT_A_HI), Lt3(items[i].a, SCRIPT_A_LO),
                   Gt3(items[i].b, SCRIPT_B_HI), Lt3(items[i].b, SCRIPT_B_LO),
                   Gt3(items[i].g, SCRIPT_G_HI), Lt3(items[i].g, SCRIPT_G_LO) } :
                 i \in 1..Len(items) })

\* fit_irt_model_standalone after its 3PL attempt: the position it goes to,
\* or "error" when if (!extreme_params) meets NA.
ScriptVerdict(m) ==
    IF m = NULL THEN "AttemptingSimple"
    ELSE IF ~m.converged THEN "AttemptingSimple"
    ELSE IF ScriptExtremeParams(m.items) = "N" THEN "error"
    ELSE IF ScriptExtremeParams(m.items) = "F" THEN "RichAccepted"
    ELSE "AttemptingSimple"

\* The bounds of the script's clean_parameters, in units of 0.00001.
SCRIPT_CLEAN_A_HI == 400000
SCRIPT_CLEAN_A_LO == 10000
SCRIPT_CLEAN_B_LO == -400000
SCRIPT_CLEAN_B_HI == 400000
SCRIPT_CLEAN_G_LO == 0
SCRIPT_CLEAN_G_HI == 50000

\* The loop body of the script's clean_parameters on row p: each if in the
\* script's order, on the value the ifs before it left.
ScriptCleanRow(p, model_type) ==
    LET d1 == IF p.discrimination # NA /\ p.discrimination < 0
              THEN 0 - p.discrimination ELSE p.discrimination
        d2 == IF d1 # NA /\ d1 > SCRIPT_CLEAN_A_HI
              THEN SCRIPT_CLEAN_A_HI ELSE d1
        d3 == IF d2 # NA /\ d2 < SCRIPT_CLEAN_A_LO
              THEN SCRIPT_CLEAN_A_LO ELSE d2
        b1 == IF p.difficulty # NA /\ p.difficulty < SCRIPT_CLEAN_B_LO
              THEN SCRIPT_CLEAN_B_LO ELSE p.difficulty
        b2 == IF b1 # NA /\ b1 > SCRIPT_CLEAN_B_HI
              THEN SCRIPT_CLEAN_B_HI ELSE b1
        g1 == IF model_type = "3PL" /\ p.guessing # NA
                 /\ p.guessing < SCRIPT_CLEAN_G_LO
              THEN SCRIPT_CLEAN_G_LO ELSE p.guessing
        g2 == IF model_type = "3PL" /\ g1 # NA /\ g1 > SCRIPT_CLEAN_G_HI
              THEN SCRIPT_CLEAN_G_HI ELSE g1
    IN  [p EXCEPT !.discrimination = d3, !.difficulty = b2, !.guessing = g2]

\* The script's clean_parameters called without its model_type argument:
\* the default "2PL" leaves every guessing value as it is.
ScriptCleanParametersDefaultType(item_params, model_type) ==
    [i \in 1..Len(item_params) |-> ScriptCleanRow(item_params[i], "2PL")]

\* The script's clean_parameters.
ScriptCleanParameters(item_params, model_type) ==
    [i \in 1..Len(item_params) |-> ScriptCleanRow(item_params[i], model_type)]

\* The items of 1..n outside failing, in order.
RECURSIVE Surviving(_, _, _)
Surviving(i, n, failing) ==
    IF i > n THEN <<>>
    ELSE (IF i \in failing THEN <<>> ELSE <<i>>) \o Surviving(i + 1, n, failing)

\* The IIF loop of perform_irt_analysis.  The error handler assigns to an
\* iif_list of its own, so the list that is written holds the items whose
\* calls did not raise, and nothing for the others.
ScriptIifList(n, failing) ==
    [j \in 1..Len(Surviving(1, n, failing)) |->
        [item_id |-> ItemId(Surviving(1, n, failing)[j]),
         theta   |-> Theta,
         info    |-> RoundCurve(EngineCurve)]]

\* The command-line tryCatch: the message is printed, quit(status = 1), and
\* no output file is written.
ScriptStop(msg) ==
    script' = [script EXCEPT !.pc = "exited", !.exit = 1,
                             !.results = [error |-> msg],
                             !.model_3pl = NULL, !.model_2pl = NULL]

\* Rscript irt_analysis.R input output: read.csv and the row filter.
ScriptStart(tables) ==
    /\ script.pc = "idle"
    /\ \E t \in tables :
        IF Len(ScriptCleanRows(RawTables[t])) < MIN_VALID_ROWS
        THEN script' = [script EXCEPT
                 !.pc = "exited", !.exit = 1, !.tbl = t,
                 !.results = [error |->
                     "Not enough valid response patterns after filtering (less than 10)."]]
        ELSE script' = [script EXCEPT !.pc = "AttemptingRich", !.tbl = t]
    /\ UNCHANGED <<cache, pc, op, key, tbl, calls, model_3pl, model_2pl,
                   fit_result, response, cleaning, upload, chart>>

\* fit_irt_model_standalone, first attempt, inside tryCatch.
ScriptRichCall(outcomes) ==
    /\ script.pc = "AttemptingRich"
    /\ \E m \in outcomes :
        script' = [script EXCEPT
            !.pc = "inspect",
            !.calls = Append(@, "3PL"),
            !.model_3pl = IF m = NULL THEN NULL ELSE Fitted(m, script.tbl)]
    /\ UNCHANGED <<cache, pc, op, key, tbl, calls, model_3pl, model_2pl,
                   fit_result, response, cleaning, upload, chart>>

\* fit_irt_model_standalone, the test of the 3PL model.
ScriptInspect ==
    /\ script.pc = "inspect"
    /\ CASE ScriptVerdict(script.model_3pl) = "error" ->
              ScriptStop("missing value where TRUE/FALSE needed")
         [] ScriptVerdict(script.model_3pl) = "RichAccepted" ->
              script' = [script EXCEPT
                  !.pc = "fitted",
                  !.fit_result = FitResult(script.model_3pl, "3PL")]
         [] OTHER -> script' = [script EXCEPT !.pc = "AttemptingSimple"]
    /\ UNCHANGED <<cache, pc, op, key, tbl, calls, model_3pl, model_2pl,
                   fit_result, response, cleaning, upload, chart>>

\* fit_irt_model_standalone, fallback, not in a tryCatch.
ScriptSimpleCall(outcomes) ==
    /\ script.pc = "AttemptingSimple"
    /\ \E m \in outcomes :
        IF m = NULL
        THEN script' = [script EXCEPT
                 !.pc = "exited", !.exit = 1, !.calls = Append(@, "2PL"),
                 !.results = [error |-> "2PL estimation failed"],
                 !.model_3pl = NULL]
        ELSE script' = [script EXCEPT
                 !.pc = "fitted", !.calls = Append(@, "2PL"),
                 !.model_2pl = Fitted(m, script.tbl),
                 !.fit_result = FitResult(Fitted(m, script.tbl), "2PL")]
    /\ UNCHANGED <<cache, pc, op, key, tbl, calls, model_3pl, model_2pl,
                   fit_result, response, cleaning, upload, chart>>

\* The ICC loop of perform_irt_analysis: one curve per item.
ScriptIccList(n) ==
    [i \in 1..n |->
        [item_id |-> ItemId(i), theta |-> Theta,
         p |-> RoundCurve(ProbCurve)]]

\* The results object of perform_irt_analysis, written as JSON.
ScriptResults(fr, responses_clean, co, tif, failing) ==
    [model_type  |-> fr.type,
     items       |-> Len(responses_clean[1]),
     respondents |-> Len(responses_clean),
     converged   |-> fr.model.converged,
     parameters  |->
         ScriptCleanParameters(
             ExtractItemParams(
                 fr.model.items,
                 SeOrZeros(ExtractStandardErrors(co, fr.type), fr.type,
                           Len(fr.model.items)),
                 fr.type),
             fr.type),
     icc |-> ScriptIccList(Len(responses_clean[1])),
     iif |-> ScriptIifList(Len(responses_clean[1]), failing),
     test_information |->
         [theta |-> Theta, information |-> RoundCurve(TestInfoOrNA(tif))]]

\* perform_irt_analysis after the fit: parameters, curves, write_json.
\* raises says whether coef() or the probtrace() of the ICC loop, which are
\* in no tryCatch, raised.
ScriptAnalyse(seOuts, tifOuts, failSets) ==
    /\ script.pc = "fitted"
    /\ \E co \in seOuts, tif \in tifOuts, failing \in failSets,
          raises \in BOOLEAN :
        IF raises
        THEN ScriptStop("engine call failed")
        ELSE script' = [script EXCEPT
                !.pc = "exited", !.exit = 0,
                !.model_3pl = NULL, !.model_2pl = NULL,
                !.results = ScriptResults(
                                script.fit_result,
                                ScriptCleanRows(RawTables[script.tbl]),
                                co, tif, failing)]
    /\ UNCHANGED <<cache, pc, op, key, tbl, calls, model_3pl, model_2pl,
                   fit_result, response, cleaning, upload, chart>>

\* The process is gone; the script can be run again.
ScriptExit ==
    /\ script.pc = "exited"
    /\ script' = ScriptIdle
    /\ UNCHANGED <<cache, pc, op, key, tbl, calls, model_3pl, model_2pl,
                   fit_result, response, cleaning, upload, chart>>

\* Runs of the script, one after another.
NextScript ==
    \/ ScriptStart(TableIds)
    \/ ScriptRichCall(RichOutcomes)
    \/ ScriptInspect
    \/ ScriptSimpleCall(SimpleOutcomes)
    \/ ScriptAnalyse(SeOutcomes, TifOutcomes, FailSets)
    \/ ScriptExit

ScriptSpec == Init /\ [][NextScript]_vars

\* The service taking one request at a time while the script is run beside
\* it: two processes with nothing in common but the engine they call.
NextBoth ==
    \/ \E r \in {1} :
        \/ Request(r, TableIds)
        \/ Lookup(r)
        \/ RichCall(r, RichOutcomesSmall)
        \/ Inspect(r)
        \/ SimpleCall(r, SimpleOutcomesSmall)
        \/ Store(r)
        \/ Respond(r, SeOutcomesSmall, TifOutcomesSmall, FailSetsSmall,
                   ItemIdArgsSmall)
        \/ Finish(r)
    \/ ScriptStart(TableIds)
    \/ ScriptRichCall(RichOutcomesSmall)
    \/ ScriptInspect
    \/ ScriptSimpleCall(SimpleOutcomesSmall)
    \/ ScriptAnalyse(SeOutcomesSmall, TifOutcomesSmall, FailSetsSmall)
    \/ ScriptExit

BothSpec == Init /\ [][NextBoth]_vars

\* ------------------------------------------------- clean_parameters alone

\* Most passes of clean_parameters made over one table.
MaxPasses == 2

\* A row of the table extract_item_params builds.
ParamRow(i, d, b, g, mt) ==
    [item_id |-> ItemId(i), discrimination |-> d, difficulty |-> b,
     guessing |-> g, se_discrimination |-> 0, se_difficulty |-> 0,
     se_guessing |-> 0, model_type |-> mt]

\* Values on both sides of every bound of clean_parameters, and NA.
DiscriminationValues ==
    {NA, -500000, -400001, -10000, -5000, 0, 5000, 9999, 10000,
     100000, 400000, 400001, 500000}
DifficultyValues == {NA, -500000, -400001, -400000, 0, 400000, 400001}
GuessingValues == {NA, -1, 0, 20000, 50000, 50001, 70000}

\* Parameter tables: every combination of the values in a table of one row,
\* and tables of two rows that need different steps.
ParamTables(mt) ==
    { <<ParamRow(1, d, b, g, mt)>> :
        d \in DiscriminationValues, b \in DifficultyValues,
        g \in GuessingValues }
    \cup { <<ParamRow(1, d, 0, 20000, mt), ParamRow(2, 100000, b, g, mt)>> :
             d \in {-500000, -5000, 500000}, b \in {-500000, 400001},
             g \in {-1, 70000} }

\* A parameter table and a model type are handed to clean_parameters of the
\* service or of the script.
CleanInit ==
    /\ ServiceInit
    /\ script = ScriptIdle
    /\ upload = UploadMounted
    /\ chart = NoChart
    /\ cleaning \in
         { [impl |-> im, model_type |-> mt, input |-> t, item_params |-> t,
            passes |-> 0] :
             im \in {"service", "script"},
             mt \in {"2PL", "3PL"},
             t \in ParamTables("2PL") \cup ParamTables("3PL") }

\* item_params <- clean_parameters(item_params, model_type)
CleanPass ==
    /\ cleaning.passes < MaxPasses
    /\ cleaning' = [cleaning EXCEPT
          !.item_params =
              IF cleaning.impl = "service"
              THEN CleanParameters(@, cleaning.model_type)
              ELSE ScriptCleanParameters(@, cleaning.model_type),
          !.passes = @ + 1]
    /\ UNCHANGED <<cache, pc, op, key, tbl, calls, model_3pl, model_2pl,
                   fit_result, response, script, upload, chart>>

CleanSpec == CleanInit /\ [][CleanPass]_vars

\* ------------------------------------------------------- the upload page

\* Most requests the upload page sends.
MaxRequests == 3

\* a || b of JavaScript on strings: the empty string and undefined are falsy.
OrElse(a, b) == IF a # "" THEN a ELSE b

\* The files the user may pick.
Files == {"a.csv", "b.csv", "notes.txt"}

\* file.name.endsWith('.csv')
EndsWithCsv(name) == name \in {"a.csv", "b.csv", "simulated_3pl_responses.csv"}

\* A request that has no reply yet.
Unanswered == [status |-> "pending", session_id |-> "", message |-> "",
               detail |-> ""]

\* What a rejected promise carries: err.message and
\* err.response?.data?.detail, either of which may be missing.
Rejections ==
    { [status |-> "failed", session_id |-> "", message |-> m, detail |-> d] :
        m \in {"", "Network Error"}, d \in {"", "Invalid CSV format"} }

\* uploadService.uploadFile(file): resolves with a session_id or rejects.
UploadReplies ==
    { [status |-> "ok", session_id |-> sid, message |-> "", detail |-> ""] :
        sid \in {"s1", "s2"} }
    \cup Rejections

\* fetch(sampleFilePath): resolves with response.ok, resolves with a status
\* that is not ok, or rejects.
FetchReplies ==
    { [status |-> "ok", session_id |-> "", message |-> "", detail |-> ""],
      [status |-> "not ok", session_id |-> "",
       message |-> "Failed to fetch sample data: 404 Not Found",
       detail |-> ""],
      [status |-> "failed", session_id |-> "", message |-> "Failed to fetch",
       detail |-> ""] }

\* response.text(): resolves or rejects.
TextReplies ==
    { [status |-> "ok", session_id |-> "", message |-> "", detail |-> ""],
      [status |-> "failed", session_id |-> "", message |-> "", detail |-> ""] }

\* disabled of the file input.
InputDisabled == upload.isUploading \/ upload.isLoadingSample

\* disabled of the 'Sample Data' button.
SampleDisabled == upload.isUploading \/ upload.isLoadingSample

\* disabled of 'Start IRT Analysis' without the test of isLoadingSample.
StartDisabledWhileUploading ==
    upload.selectedFile = NoFile \/ upload.isUploading

\* disabled of the 'Start IRT Analysis' button.
StartDisabled ==
    upload.selectedFile = NoFile \/ upload.isUploading
        \/ upload.isLoadingSample

\* The page is shown.
UploadShown == upload.location = UploadRoute

\* The request log with the reply to request i filled in.
Answered(i, reply) == [upload.requests EXCEPT ![i].reply = reply]

\* handleFileSelect: a file that is no CSV file is refused with a message.
\* (A change event without a file returns at once and changes nothing.)
handleFileSelect(file) ==
    /\ UploadShown
    /\ ~InputDisabled
    /\ upload' = IF ~EndsWithCsv(file)
                 THEN [upload EXCEPT !.error = "Please upload a CSV file",
                                     !.selectedFile = NoFile]
                 ELSE [upload EXCEPT !.selectedFile = file,
                                     !.error = NoError]
    /\ UNCHANGED <<backend, chart>>

\* onDelete of the Chip shown for the selected file, which is never
\* disabled: setSelectedFile(null).
onDelete ==
    /\ UploadShown
    /\ upload.selectedFile # NoFile
    /\ upload' = [upload EXCEPT !.selectedFile = NoFile]
    /\ UNCHANGED <<backend, chart>>

\* handleUpload up to its await: the click reaches the handler only while
\* the button is enabled; React renders the new flags before the next event.
handleUpload ==
    /\ UploadShown
    /\ ~StartDisabled
    /\ upload.selectedFile # NoFile
    /\ Len(upload.requests) < MaxRequests
    /\ upload' = [upload EXCEPT
          !.isUploading = TRUE,
          !.error = NoError,
          !.requests = Append(@, [what  |-> "POST " \o upload.selectedFile,
                                  reply |-> Unanswered]),
          !.pending = @ \cup {[handler |-> "handleUpload",
                               stage   |-> "upload",
                               req     |-> Len(upload.requests) + 1]}]
    /\ UNCHANGED <<backend, chart>>

\* navigate(`/analysis/${session_id}`): the upload page is unmounted and its
\* state is gone; what is in flight stays in flight.
Navigated(f, reply) ==
    [UploadMounted EXCEPT
        !.location = "/analysis/" \o reply.session_id,
        !.pending = upload.pending \ {f},
        !.requests = Answered(f.req, reply)]

\* handleUpload from its await on: navigate, or catch, then finally.  The
\* setters of a page that is no longer mounted do nothing.
UploadSettles ==
    \E f \in upload.pending, reply \in UploadReplies :
        /\ f.handler = "handleUpload"
        /\ upload' =
             IF reply.status = "ok" THEN Navigated(f, reply)
             ELSE IF UploadShown
             THEN [upload EXCEPT
                     !.error = OrElse(reply.detail,
                                      "Upload failed. Please try again."),
                     !.isUploading = FALSE,
                     !.pending = @ \ {f},
                     !.requests = Answered(f.req, reply)]
             ELSE [upload EXCEPT !.pending = @ \ {f},
                                 !.requests = Answered(f.req, reply)]
        /\ UNCHANGED <<backend, chart>>

\* handleSampleData up to its first await.
handleSampleData ==
    /\ UploadShown
    /\ ~SampleDisabled
    /\ Len(upload.requests) + 2 <= MaxRequests
    /\ upload' = [upload EXCEPT
          !.isLoadingSample = TRUE,
          !.error = NoError,
          !.requests = Append(@, [what  |-> "GET /simulated_3pl_responses.csv",
                                  reply |-> Unanswered]),
          !.pending = @ \cup {[handler |-> "handleSampleData",
                               stage   |-> "fetch",
                               req     |-> Len(upload.requests) + 1]}]
    /\ UNCHANGED <<backend, chart>>

\* The catch and finally of handleSampleData for a failure with reply.
SampleFails(f, reply) ==
    IF UploadShown
    THEN [upload EXCEPT
            !.error = OrElse(reply.message,
                             OrElse(reply.detail,
                                    "Failed to load sample data. Please try again.")),
            !.isLoadingSample = FALSE,
            !.pending = @ \ {f},
            !.requests = Answered(f.req, reply)]
    ELSE [upload EXCEPT !.pending = @ \ {f},
                        !.requests = Answered(f.req, reply)]

\* handleSampleData after await fetch(...): a response that is not ok throws.
SampleFetchSettles ==
    \E f \in upload.pending, reply \in FetchReplies :
        /\ f.handler = "handleSampleData"
        /\ f.stage = "fetch"
        /\ upload' =
             IF reply.status = "ok"
             THEN [upload EXCEPT
                     !.pending = (@ \ {f}) \cup {[f EXCEPT !.stage = "text"]},
                     !.requests = Answered(f.req, reply)]
             ELSE SampleFails(f, reply)
        /\ UNCHANGED <<backend, chart>>

\* handleSampleData after await response.text(): the file is built and sent.
SampleTextSettles ==
    \E f \in upload.pending, reply \in TextReplies :
        /\ f.handler = "handleSampleData"
        /\ f.stage = "text"
        /\ upload' =
             IF reply.status = "ok"
             THEN [upload EXCEPT
                     !.requests =
                         Append(@, [what  |-> "POST simulated_3pl_responses.csv",
                                    reply |-> Unanswered]),
                     !.pending =
                         (@ \ {f}) \cup {[handler |-> "handleSampleData",
                                          stage   |-> "upload",
                                          req     |-> Len(upload.requests) + 1]}]
             ELSE SampleFails(f, [reply EXCEPT !.status = "ok"])
        /\ UNCHANGED <<backend, chart>>

\* handleSampleData after await uploadService.uploadFile(sampleFile).
SampleUploadSettles ==
    \E f \in upload.pending, reply \in UploadReplies :
        /\ f.handler = "handleSampleData"
        /\ f.stage = "upload"
        /\ upload' = IF reply.status = "ok" THEN Navigated(f, reply)
                     ELSE SampleFails(f, reply)
        /\ UNCHANGED <<backend, chart>>

\* The user comes back to the upload page, which is mounted anew.
BackToUpload ==
    /\ ~UploadShown
    /\ upload' = [UploadMounted EXCEPT !.pending = upload.pending,
                                       !.requests = upload.requests]
    /\ UNCHANGED <<backend, chart>>

NextUpload ==
    \/ \E file \in Files : handleFileSelect(file)
    \/ onDelete
    \/ handleUpload
    \/ UploadSettles
    \/ handleSampleData
    \/ SampleFetchSettles
    \/ SampleTextSettles
    \/ SampleUploadSettles
    \/ BackToUpload

UploadSpec == Init /\ [][NextUpload]_vars

\* ------------------------------------------------------ chart components

\* Most fetches a chart component starts.
MaxFetches == 3

\* ICCCurve, IIFChart and TIFChart.
ChartKinds == {"ICCCurve", "IIFChart", "TIFChart"}

\* The values of the sessionId prop.
SessionIds == {"", "s1", "s2"}

\* What getICCCurves, getIIF or getTIF may come back with: the data, a
\* success without the data field, an error status with or without a
\* message, or a rejection.
FetchOutcomes == {"data", "no data", "error", "no message", "rejected"}

\* response.error || "...": the message shown for a reply that is no success.
FailureMessage(kind, outcome) ==
    CASE outcome = "error" -> "Session not found"
      [] kind = "ICCCurve" -> "Failed to load ICC data."
      [] kind = "IIFChart" -> "Failed to load Item Information data"
      [] OTHER -> "Failed to load TIF data"

\* The message set in catch.
CatchMessage(kind) ==
    CASE kind = "ICCCurve" ->
           "Failed to load ICC curves. The IRT model may still be running."
      [] kind = "IIFChart" -> "Failed to load item information function"
      [] OTHER -> "Failed to load test information function"

\* The effect on sessionId, up to the await: loadICCData, fetchIIFData or
\* fetchTIFData; the latter two return at once on an empty sessionId.
FetchEffect(c) ==
    IF c.kind # "ICCCurve" /\ c.sessionId = "" THEN c
    ELSE [c EXCEPT !.loading = TRUE,
                   !.error = NoError,
                   !.fetches = @ + 1,
                   !.pending = @ \cup {[n |-> c.fetches + 1,
                                        sessionId |-> c.sessionId]}]

\* A chart component is mounted and its effect runs.
MountChart ==
    /\ chart.kind = "none"
    /\ \E k \in ChartKinds, sid \in SessionIds :
        chart' = FetchEffect([NoChart EXCEPT !.kind = k, !.sessionId = sid])
    /\ UNCHANGED <<backend, upload>>

\* The sessionId prop changes and the effect runs again; nothing is done
\* about the fetch the effect started before.
SessionChanges ==
    /\ chart.kind # "none"
    /\ chart.fetches < MaxFetches
    /\ \E sid \in SessionIds \ {chart.sessionId} :
        chart' = FetchEffect([chart EXCEPT !.sessionId = sid])
    /\ UNCHANGED <<backend, upload>>

\* The reply counts as a success with its data.
HasData(kind, outcome) ==
    outcome = "data" \/ (kind = "TIFChart" /\ outcome = "no data")

\* The rest of the fetch function after its await, for the fetch f: the data
\* or the error is set, then finally setLoading(false).
FetchSettles ==
    /\ \E f \in chart.pending, outcome \in FetchOutcomes :
        chart' = [chart EXCEPT
            !.data = IF HasData(chart.kind, outcome) THEN f.sessionId ELSE @,
            !.error = IF HasData(chart.kind, outcome) THEN @
                      ELSE IF outcome = "rejected"
                      THEN CatchMessage(chart.kind)
                      ELSE FailureMessage(chart.kind, outcome),
            !.loading = FALSE,
            !.pending = @ \ {f}]
    /\ UNCHANGED <<backend, upload>>

NextChart ==
    \/ MountChart
    \/ SessionChanges
    \/ FetchSettles

ChartSpec == Init /\ [][NextChart]_vars

\* ------------------------------------------------------------------ claims

\* The positions in which fit_irt_model is about to return.
FitTerminal == {"RichAccepted", "SimpleAccepted"}

\* The positions of a request inside fit_irt_model.
FitPositions ==
    {"AttemptingRich", "inspect", "AttemptingSimple"} \cup FitTerminal

\* Request r leaves fit_irt_model with a result in this step.
FitReturns(r) == pc[r] \in FitTerminal /\ pc'[r] = "respond"

\* Interval membership of one item's coefficients, NA being in no interval.
\* aLowIn says whether the lower discrimination bound itself is allowed.
InBounds(it, aLowIn) ==
    /\ it.a # NA /\ it.b # NA /\ it.g # NA
    /\ (IF aLowIn THEN it.a >= A_LO ELSE it.a > A_LO) /\ it.a <= A_HI
    /\ it.b >= B_LO /\ it.b <= B_HI
    /\ it.g >= G_LO /\ it.g <= G_HI

\* The 3PL call returned a converged model with every item in bounds.
RichAcceptable(m, aLowIn) ==
    /\ m # NULL
    /\ m.converged
    /\ \A i \in 1..Len(m.items) : InBounds(m.items[i], aLowIn)

\* C1 as stated: fit returns type 3PL only if the 3PL call returned a
\* converged model whose items all have discrimination in (0.01, 10], 0.01
\* excluded, difficulty in [-10, 10] and guessing in [0, 0.5]; every other
\* return is of type 2PL.  Fails: a discrimination of exactly 0.01 passes
\* the check a < 0.01 and the 3PL model is returned.
C1_RichOnlyIfStrictlyAboveLow ==
    [][\A r \in Reqs : FitReturns(r) =>
          /\ fit_result'[r].type \in {"3PL", "2PL"}
          /\ (fit_result'[r].type = "3PL") => RichAcceptable(model_3pl[r], FALSE)
      ]_vars

\* C1 amended: fit returns type 3PL only if the 3PL call returned a
\* converged model whose items all have discrimination in [0.01, 10],
\* difficulty in [-10, 10] and guessing in [0, 0.5]; every other return
\* of fit is of type 2PL.
C1_RichOnlyIfPlausible ==
    [][\A r \in Reqs : FitReturns(r) =>
          /\ fit_result'[r].type \in {"3PL", "2PL"}
          /\ (fit_result'[r].type = "3PL") => RichAcceptable(model_3pl[r], TRUE)
      ]_vars

\* C1 witness: fit has returned a 3PL model with an item whose
\* discrimination is exactly 0.01.
C1_Witness ==
    \E r \in Reqs :
        /\ pc[r] = "respond"
        /\ fit_result[r].type = "3PL"
        /\ \E i \in 1..Len(fit_result[r].model.items) :
               fit_result[r].model.items[i].a = A_LO

\* C2: if the 3PL call returns a converged model in which every item is
\* within the bounds, fit goes to RichAccepted and returns that very model
\* with type 3PL, having made the 3PL call and no 2PL call.
C2_PlausibleRichAccepted ==
    [][\A r \in Reqs :
          /\ (/\ pc[r] = "inspect"
              /\ pc'[r] # "inspect"
              /\ RichAcceptable(model_3pl[r], TRUE))
             => /\ pc'[r] = "RichAccepted"
                /\ model_3pl'[r] = model_3pl[r]
                /\ calls'[r] = <<"3PL">>
          /\ (pc[r] = "RichAccepted" /\ pc'[r] # "RichAccepted")
             => /\ pc'[r] = "respond"
                /\ fit_result'[r] = FitResult(model_3pl[r], "3PL")
                /\ calls'[r] = <<"3PL">>
      ]_vars

\* C2 witness: fit has returned the nominal 3PL model after one engine call.
C2_Witness ==
    \E r \in Reqs :
        /\ pc[r] = "respond"
        /\ fit_result[r] = FitResult(Fitted(MkModel("3PL", TRUE,
                                <<NomItem, NomItem>>), tbl[r]), "3PL")
        /\ calls[r] = <<"3PL">>

\* C3: if the 3PL call raises or returns a model that did not converge, fit
\* raises nothing: it goes on to AttemptingSimple, where the 2PL call can be
\* made, and leaving AttemptingSimple makes that call exactly once.
C3_RichFailureFallsBack ==
    /\ [](\A r \in Reqs : pc[r] = "AttemptingSimple"
              => ENABLED SimpleCall(r, SimpleOutcomes))
    /\ [][\A r \in Reqs :
          /\ (/\ pc[r] = "inspect"
              /\ pc'[r] # "inspect"
              /\ (model_3pl[r] = NULL \/ ~model_3pl[r].converged))
             => /\ pc'[r] = "AttemptingSimple"
                /\ response'[r] = NULL
                /\ calls'[r] = <<"3PL">>
          /\ (pc[r] = "AttemptingSimple" /\ pc'[r] # "AttemptingSimple")
             => /\ calls[r] = <<"3PL">>
                /\ calls'[r] = <<"3PL", "2PL">>
          /\ (pc[r] = "SimpleAccepted" /\ pc'[r] # "SimpleAccepted")
             => calls'[r] = <<"3PL", "2PL">>
      ]_vars

\* C3 witness: the 3PL call raised and the 2PL call has been made once.
C3_Witness ==
    \E r \in Reqs :
        /\ pc[r] = "SimpleAccepted"
        /\ model_3pl[r] = NULL
        /\ calls[r] = <<"3PL", "2PL">>

\* C4: whatever model the 2PL call returns, converged or not and with any
\* coefficients, fit accepts it and returns it with type 2PL, and analyze
\* answers success for a 2PL model that did not converge.
C4_SimpleAlwaysAccepted ==
    /\ [](\A r \in Reqs : pc[r] = "AttemptingSimple" =>
            \A m \in SimpleOutcomes \ {NULL} :
                /\ ENABLED (/\ SimpleCall(r, {m})
                            /\ pc'[r] = "SimpleAccepted"
                            /\ model_2pl'[r] = Fitted(m, tbl[r]))
                /\ ~ENABLED (SimpleCall(r, {m}) /\ pc'[r] # "SimpleAccepted"))
    /\ [](\A r \in Reqs :
            (/\ pc[r] = "done"
             /\ op[r] = "analyze"
             /\ fit_result[r] # NULL
             /\ fit_result[r].type = "2PL")
            => /\ response[r].status = "success"
               /\ response[r].analysis_type = "2PL"
               /\ response[r].converged = fit_result[r].model.converged)
    /\ [][\A r \in Reqs :
            (pc[r] = "SimpleAccepted" /\ pc'[r] # "SimpleAccepted")
            => /\ pc'[r] = "respond"
               /\ fit_result'[r] = FitResult(model_2pl[r], "2PL")
      ]_vars

\* C4 witness: analyze has answered success with a 2PL model that did not
\* converge.
C4_Witness ==
    \E r \in Reqs :
        /\ pc[r] = "done"
        /\ op[r] = "analyze"
        /\ fit_result[r] # NULL
        /\ fit_result[r].type = "2PL"
        /\ ~fit_result[r].model.converged
        /\ response[r].status = "success"

\* A response that reports a failure to the caller: an error payload, or the
\* condition itself where the handler let it through.
Failed(p) == p.status \in {"error", "unhandled"}

\* C5: if the 2PL call raises, the request ends in failure, with no fit
\* result and no success payload, the cache is left as it was, so the key it asked for has
\* no entry, and a later lookup of a key without entry starts a fit afresh
\* at AttemptingRich with no engine call made.
C5_SimpleFailurePropagates ==
    /\ [](\A r \in Reqs :
            pc[r] = "AttemptingSimple"
            => fit_result[r] = NULL /\ cache[key[r]] = NULL)
    /\ [][\A r \in Reqs :
          /\ (pc[r] = "AttemptingSimple" /\ pc'[r] = "done")
             => /\ Failed(response'[r])
                /\ fit_result'[r] = NULL
                /\ cache' = cache
                /\ cache'[key[r]] = NULL
          /\ (pc[r] = "done" /\ pc'[r] = "idle") => cache' = cache
          /\ (pc[r] = "idle" /\ pc'[r] # "idle") => cache' = cache
          /\ (pc[r] = "lookup" /\ pc'[r] # "lookup" /\ cache[key[r]] = NULL)
             => /\ pc'[r] = "AttemptingRich"
                /\ calls'[r] = <<>>
                /\ model_3pl'[r] = NULL
                /\ cache' = cache
      ]_vars

\* C5 witness: a request ended in failure after its 2PL call raised, and its
\* key has no entry.
C5_Witness ==
    \E r \in Reqs :
        /\ pc[r] = "done"
        /\ calls[r] = <<"3PL", "2PL">>
        /\ Failed(response[r])
        /\ cache[key[r]] = NULL

\* C6: a fit makes one 3PL call, then at most one 2PL call, never either
\* twice and never the 2PL call first, and from AttemptingRich it always
\* comes to RichAccepted, to SimpleAccepted or to an error.
C6_FitTwoStep ==
    /\ [](\A r \in Reqs :
            /\ calls[r] \in {<<>>, <<"3PL">>, <<"3PL", "2PL">>}
            /\ pc[r] = "AttemptingRich" => calls[r] = <<>>
            /\ pc[r] \in {"inspect", "RichAccepted", "AttemptingSimple"}
                  => calls[r] = <<"3PL">>
            /\ pc[r] = "SimpleAccepted" => calls[r] = <<"3PL", "2PL">>)
    /\ \A r \in Reqs :
          (pc[r] = "AttemptingRich") ~> (pc[r] \in FitTerminal \cup {"done"})

\* C6 witness: a fit has reached SimpleAccepted after its two calls.
C6_Witness ==
    \E r \in Reqs :
        /\ pc[r] = "SimpleAccepted"
        /\ calls[r] = <<"3PL", "2PL">>
        /\ model_3pl[r] # NULL

\* C7: a lookup of a key that has an entry hands back that entry, whatever
\* table came with the request, makes no engine call and leaves the cache
\* as it was; what a request got from get_or_fit_model is what the cache
\* holds for its key, so the next request for the key gets the same.
C7_HitReturnsStored ==
    /\ [](\A r \in Reqs :
            (pc[r] \in {"respond", "done"} /\ fit_result[r] # NULL)
            => cache[key[r]] = fit_result[r])
    /\ [][\A r \in Reqs :
          /\ (pc[r] = "lookup" /\ pc'[r] # "lookup" /\ cache[key[r]] # NULL)
             => /\ pc'[r] = "respond"
                /\ fit_result'[r] = cache[key[r]]
                /\ calls'[r] = <<>>
                /\ cache' = cache
          /\ (pc[r] = "respond" /\ pc'[r] # "respond")
             => calls'[r] = calls[r] /\ cache' = cache
      ]_vars

\* C7 witness: a request got the stored entry although the model in it was
\* fitted to another table than the request's.
C7_Witness ==
    \E r \in Reqs :
        /\ pc[r] = "respond"
        /\ calls[r] = <<>>
        /\ fit_result[r] # NULL
        /\ fit_result[r].model.data # tbl[r]

\* C8: once a key has an entry, the entry never changes, whatever requests
\* for that key or another follow; no request ends a fit of its own for a
\* key that has an entry, since a request is taken up only after the handler
\* before it has returned.
C8_EntryNeverChanges ==
    [][\A k \in Keys : cache[k] # NULL => cache'[k] = cache[k]]_vars

\* C8 witness: a later request for a key was handed the entry the first
\* request for that key had stored, and the entry is still that one.
C8_Witness ==
    \E r1, r2 \in Reqs :
        /\ r1 # r2
        /\ key[r1] = key[r2]
        /\ pc[r1] = "done"
        /\ calls[r1] # <<>>
        /\ fit_result[r1] # NULL
        /\ pc[r2] = "respond"
        /\ calls[r2] = <<>>
        /\ fit_result[r2] = fit_result[r1]
        /\ cache[key[r1]] = fit_result[r1]

\* A complete cache entry: a model of the type the entry names, and a 3PL
\* model only if it converged.
CompleteEntry(e) ==
    /\ DOMAIN e = {"model", "type"}
    /\ e.type \in {"3PL", "2PL"}
    /\ e.model # NULL
    /\ e.model.itemtype = e.type
    /\ e.type = "3PL" => e.model.converged

\* Request r missed the cache and has finished a fit of its own.
FittedOwn(r) ==
    pc[r] \in {"respond", "done"} /\ calls[r] # <<>> /\ fit_result[r] # NULL

\* Request r is inside its handler.
InHandler(r) == pc[r] \notin {"idle", "done"}

\* C9 as stated, in its part on concurrent misses: while a request is
\* between its test for the key and the storing of its result, a second
\* request can be taken up and test for the key too, so that two fits for
\* one key are in flight.  Fails: the second request waits for the handler
\* of the first to return.
C9_SecondRequestTestsDuringFit ==
    \A r1, r2 \in Reqs :
        (r1 # r2 /\ pc[r1] \in FitPositions /\ pc[r2] = "idle")
        => ENABLED Request(r2, TableIdsSmall)

\* C9: the cache holds one value per key; the cache does not coalesce fits:
\* a request that missed goes through its whole fit and stores its own
\* result; but one request is handled at a time, so two fits are never in
\* flight, and a request for a key another request has fitted finds the
\* entry: when both are answered the key has one complete entry, the one
\* the first stored.
C9_OneEntryPerKeyOneFitAtATime ==
    /\ [](/\ DOMAIN cache = Keys
          /\ \A k \in Keys : cache[k] = NULL \/ CompleteEntry(cache[k]))
    /\ [](\A r1, r2 \in Reqs : (InHandler(r1) /\ InHandler(r2)) => r1 = r2)
    /\ [](\A r \in Reqs :
            FittedOwn(r) => /\ CompleteEntry(cache[key[r]])
                            /\ cache[key[r]] = fit_result[r])
    /\ [](\A r1, r2 \in Reqs :
            (r1 # r2 /\ key[r1] = key[r2] /\ FittedOwn(r1)
                /\ pc[r2] \in FitPositions \cup {"respond", "done"}
                /\ fit_result[r2] # NULL)
            => /\ calls[r2] = <<>>
               /\ fit_result[r2] = fit_result[r1])
    /\ [][\A r \in Reqs :
          /\ (pc[r] \in FitPositions \ FitTerminal /\ pc'[r] # pc[r])
             => pc'[r] \in FitPositions \cup {"done"}
          /\ FitReturns(r)
             => /\ calls'[r] # <<>>
                /\ cache'[key[r]] = fit_result'[r]
      ]_vars

\* C9 witness: of two requests for one key, both answered, the first fitted
\* and the second was answered from the entry of the first.
C9_Witness ==
    \E r1, r2 \in Reqs :
        /\ r1 # r2
        /\ key[r1] = key[r2]
        /\ pc[r1] = "done"
        /\ FittedOwn(r1)
        /\ pc[r2] = "done"
        /\ calls[r2] = <<>>
        /\ response[r2].status = "success"
        /\ CompleteEntry(cache[key[r1]])

\* C10: every entry in the cache is a complete {model, type} pair, and an
\* entry appears or changes only in the step in which a request that has
\* reached RichAccepted or SimpleAccepted stores what its fit returned.
C10_EntryOnlyAfterFit ==
    /\ [](\A k \in Keys : cache[k] # NULL => CompleteEntry(cache[k]))
    /\ [][\A k \in Keys : cache'[k] # cache[k] =>
            \E r \in Reqs :
                /\ key[r] = k
                /\ FitReturns(r)
                /\ cache'[k] = fit_result'[r]
                /\ cache'[k] = IF pc[r] = "RichAccepted"
                               THEN FitResult(model_3pl[r], "3PL")
                               ELSE FitResult(model_2pl[r], "2PL")
      ]_vars

\* C10 witness: a key has no entry while a fit for it is at SimpleAccepted,
\* about to store.
C10_Witness ==
    \E r \in Reqs :
        /\ pc[r] = "SimpleAccepted"
        /\ cache[key[r]] = NULL
        /\ \A q \in Reqs \ {r} : pc[q] = "idle"

\* C11: the cache never evicts: a key that has an entry has one after every
\* step, whichever request takes the step, on whichever endpoint and key, and
\* whether it succeeds or fails.
C11_NeverEvicts ==
    [][\A k \in Keys : cache[k] # NULL => cache'[k] # NULL]_vars

\* C11 witness: both keys have entries while a request has just failed and
\* another has just been answered from the cache.
C11_Witness ==
    /\ \A k \in Keys : cache[k] # NULL
    /\ \E r \in Reqs : pc[r] = "done" /\ Failed(response[r])
    /\ \E r \in Reqs : /\ pc[r] = "done"
                       /\ response[r].status = "success"
                       /\ calls[r] = <<>>

\* ---------------------------------------------------- claims on validation

\* The schema error validate_and_clean_data stops with on table resp.
SchemaMessage(resp) == "Responses must be 0/1. Found: " \o FoundFrom(resp, 0)

InsufficientMessage == "Not enough valid response patterns after filtering"

\* The number of rows of resp whose sum, NA counted as 0, is strictly
\* between 0 and the item count.
ValidCount(resp) ==
    Cardinality({i \in 1..Len(resp) :
                   RowSum(resp[i]) > 0 /\ RowSum(resp[i]) < Len(resp[i])})

\* Request r arrives in this step with a data_path.
Arrives(r) == pc[r] = "idle" /\ pc'[r] # "idle" /\ key'[r] # NoPath

\* Request r is turned away in this step by validation with message msg:
\* no fit is started, no engine call made, the cache neither read nor
\* written.
TurnedAway(r, msg) ==
    /\ pc'[r] = "done"
    /\ Failed(response'[r])
    /\ op'[r] # "analyze"
         => response'[r] = ErrorPayload(op'[r], StopMessage(msg))
    /\ calls'[r] = <<>>
    /\ fit_result'[r] = NULL
    /\ cache' = cache

\* The service's half of C12: a request whose table has a cell outside
\* {0, 1, NA} is turned away with the schema error.
ServiceSchemaCheck ==
    \A r \in Reqs :
        (Arrives(r) /\ ~IsBinary(RawTables[tbl'[r]]))
        => TurnedAway(r, SchemaMessage(RawTables[tbl'[r]]))

\* The script is started in this step.
ScriptStarts == script.pc = "idle" /\ script'.pc # "idle"

\* C12 as stated: in every implementation a table with a cell outside
\* {0, 1, missing} fails validation with a schema error, and no fit is
\* started and no cache entry read or written.  Fails: the script tests no
\* cell values and goes on to the 3PL fit.
C12_SchemaErrorEverywhere ==
    [][/\ ServiceSchemaCheck
       /\ (ScriptStarts /\ ~IsBinary(RawTables[script'.tbl]))
          => /\ script'.pc = "exited"
             /\ script'.exit = 1
             /\ script'.calls = <<>>
      ]_vars

\* C12 amended: the service turns away a table with a cell outside
\* {0, 1, NA} with the schema error, starting no fit and neither reading
\* nor writing the cache; the script has no schema check, it stops at its
\* start exactly when fewer than 10 rows pass the row filter.
C12_ServiceSchemaError ==
    [][/\ ServiceSchemaCheck
       /\ ScriptStarts
          => (script'.pc = "exited"
              <=> ValidCount(RawTables[script'.tbl]) < MIN_VALID_ROWS)
      ]_vars

\* C12 witness: a request on /icc was turned away with the schema error for
\* a table holding a 2, and the script is fitting that same table.
C12_Witness ==
    /\ \E r \in Reqs :
        /\ pc[r] = "done"
        /\ op[r] = "icc"
        /\ tbl[r] = "bad"
        /\ response[r] = [status |-> "error",
                          error |-> "errorResponses must be 0/1. Found: 0, 1, 2"]
    /\ script.pc = "AttemptingRich"
    /\ script.tbl = "bad"

\* C13 as stated: every row of the cleaned matrix of a table that validation
\* accepted has a cell equal to 1 and a cell equal to 0.  Fails: a row
\* (1, NA) has row sum 1 < 2 and is kept, and it holds no 0.
C13_CleanRowsHaveBoth ==
    \A r \in Reqs :
        pc[r] = "lookup"
        => \A i \in 1..Len(CleanRows(RawTables[tbl[r]])) :
              LET row == CleanRows(RawTables[tbl[r]])[i]
              IN  /\ \E j \in 1..Len(row) : row[j] = 1
                  /\ \E j \in 1..Len(row) : row[j] = 0

\* C14: a request with a data_path and a table over {0, 1, NA} passes
\* validation if and only if at least 10 rows have 0 < row sum < item count;
\* otherwise it is turned away with the insufficient-data error and no fit
\* is attempted.  The script starts its fit under the same condition.
C14_TenValidRows ==
    [][/\ \A r \in Reqs :
            (Arrives(r) /\ IsBinary(RawTables[tbl'[r]]))
            => IF ValidCount(RawTables[tbl'[r]]) >= 10
               THEN pc'[r] = "lookup" /\ response'[r] = NULL
               ELSE TurnedAway(r, InsufficientMessage)
       /\ ScriptStarts
          => IF ValidCount(RawTables[script'.tbl]) >= 10
             THEN script'.pc = "AttemptingRich"
             ELSE /\ script'.pc = "exited"
                  /\ script'.exit = 1
                  /\ script'.calls = <<>>
      ]_vars

\* C14 witness: a table with exactly 10 valid rows has passed the service's
\* validation while the script has stopped on one with 9.
C14_Witness ==
    /\ \E r \in Reqs :
        /\ pc[r] = "lookup"
        /\ ValidCount(RawTables[tbl[r]]) = 10
    /\ script.pc = "exited"
    /\ script.exit = 1
    /\ ValidCount(RawTables[script.tbl]) = 9

\* The index in resp of the j-th row that has 0 < row sum < item count.
NthValid(resp, j) ==
    CHOOSE i \in 1..Len(resp) :
        /\ RowSum(resp[i]) > 0 /\ RowSum(resp[i]) < Len(resp[i])
        /\ Cardinality({k \in 1..i : RowSum(resp[k]) > 0
                                       /\ RowSum(resp[k]) < Len(resp[k])}) = j

\* C15: for a request that passed validation the cleaned matrix is exactly
\* the rows with 0 < row sum < item count, in their order and cell for
\* cell; /analyze reports the sizes of the cleaned and of the original
\* matrix, the first never above the second; 12 rows with one all-1 and one
\* all-0 row give 10.
C15_CleanedIsValidRowsInOrder ==
    \A r \in Reqs :
        LET resp == RawTables[tbl[r]]
            resp_clean == CleanRows(RawTables[tbl[r]])
        IN  /\ pc[r] \notin {"idle", "done"}
               => /\ Len(resp_clean) = ValidCount(resp)
                  /\ \A j \in 1..Len(resp_clean) :
                        resp_clean[j] = resp[NthValid(resp, j)]
                  /\ Len(resp_clean) <= Len(resp)
            /\ (pc[r] = "done" /\ op[r] = "analyze"
                /\ response[r].status = "success")
               => /\ response[r].data_summary.n_students = ValidCount(resp)
                  /\ response[r].data_summary.original_students = Len(resp)
                  /\ response[r].data_summary.n_students
                        <= response[r].data_summary.original_students
                  /\ tbl[r] = "ok12"
                       => /\ response[r].data_summary.original_students = 12
                          /\ response[r].data_summary.n_students = 10

\* C15 witness: /analyze succeeded on the 12-row table with one all-1 and
\* one all-0 row and reports 10 of 12.
C15_Witness ==
    \E r \in Reqs :
        /\ pc[r] = "done"
        /\ op[r] = "analyze"
        /\ tbl[r] = "ok12"
        /\ response[r].status = "success"
        /\ response[r].data_summary.n_students = 10
        /\ response[r].data_summary.original_students = 12

\* ------------------------------------------------------ claims on cleaning

\* Row i of the table being cleaned, as handed in and as it is now.
RowIn(i) == cleaning.input[i]
RowNow(i) == cleaning.item_params[i]

\* C16: after a cleaning pass every discrimination that is not NA lies in
\* [0.1, 4.0], every difficulty that is not NA in [-4.0, 4.0] and, for 3PL,
\* every guessing that is not NA in [0, 0.5]; the discrimination steps come
\* in the order abs, cap, floor, so 5.0 gives 4.0, -0.05 gives 0.1 and -5.0
\* gives 4.0; a value already inside its bounds, and NA, is left as it is.
C16_CleanedWithinBounds ==
    cleaning.passes >= 1 =>
      \A i \in 1..Len(cleaning.input) :
        /\ Len(cleaning.item_params) = Len(cleaning.input)
        /\ RowNow(i).discrimination # NA
             => /\ RowNow(i).discrimination >= 10000
                /\ RowNow(i).discrimination <= 400000
        /\ RowNow(i).difficulty # NA
             => /\ RowNow(i).difficulty >= -400000
                /\ RowNow(i).difficulty <= 400000
        /\ (cleaning.model_type = "3PL" /\ RowNow(i).guessing # NA)
             => /\ RowNow(i).guessing >= 0
                /\ RowNow(i).guessing <= 50000
        /\ RowIn(i).discrimination = 500000
             => RowNow(i).discrimination = 400000
        /\ RowIn(i).discrimination = -5000
             => RowNow(i).discrimination = 10000
        /\ RowIn(i).discrimination = -500000
             => RowNow(i).discrimination = 400000
        /\ (RowIn(i).discrimination = NA
            \/ (RowIn(i).discrimination >= 10000
                /\ RowIn(i).discrimination <= 400000))
             => RowNow(i).discrimination = RowIn(i).discrimination
        /\ (RowIn(i).difficulty = NA
            \/ (RowIn(i).difficulty >= -400000
                /\ RowIn(i).difficulty <= 400000))
             => RowNow(i).difficulty = RowIn(i).difficulty
        /\ (RowIn(i).guessing = NA
            \/ cleaning.model_type # "3PL"
            \/ (RowIn(i).guessing >= 0 /\ RowIn(i).guessing <= 50000))
             => RowNow(i).guessing = RowIn(i).guessing
        /\ RowNow(i).item_id = RowIn(i).item_id
        /\ RowNow(i).model_type = RowIn(i).model_type

\* C16 witness: the service's clean_parameters has made one pass over a 3PL
\* table with discrimination -5.0, difficulty 4.00001 and guessing 0.7 and
\* left 4.0, 4.0 and 0.5.
C16_Witness ==
    /\ cleaning.impl = "service"
    /\ cleaning.model_type = "3PL"
    /\ cleaning.passes = 1
    /\ Len(cleaning.input) = 1
    /\ RowIn(1).discrimination = -500000
    /\ RowIn(1).difficulty = 400001
    /\ RowIn(1).guessing = 70000
    /\ RowNow(1).discrimination = 400000
    /\ RowNow(1).difficulty = 400000
    /\ RowNow(1).guessing = 50000

\* C17: cleaning is idempotent: a pass over a table that has been cleaned
\* with the same model type leaves every row as it is.
C17_CleaningIdempotent ==
    [][cleaning.passes >= 1
         => cleaning'.item_params = cleaning.item_params]_vars

\* C17 witness: a second pass has been made over a table that the first
\* pass had changed.
C17_Witness ==
    /\ cleaning.passes = 2
    /\ cleaning.impl = "service"
    /\ cleaning.item_params # cleaning.input

\* ----------------------------------------------------- claims on responses

\* Request r has been answered by /analyze with a success payload.
Analyzed(r) ==
    pc[r] = "done" /\ op[r] = "analyze" /\ response[r].status = "success"

\* C18: when the fit behind an /analyze answer is of type 2PL, the answer's
\* analysis_type is 2PL and every item row has guessing 0, se_guessing 0 and
\* model_type 2PL; the analysis_type is always the type of the fit.
C18_SimpleReportsNoGuessing ==
    \A r \in Reqs :
        Analyzed(r) =>
          /\ response[r].analysis_type = fit_result[r].type
          /\ Len(response[r].item_parameters) = Len(fit_result[r].model.items)
          /\ fit_result[r].type = "2PL"
               => \A i \in 1..Len(response[r].item_parameters) :
                     /\ response[r].item_parameters[i].guessing = 0
                     /\ response[r].item_parameters[i].se_guessing = 0
                     /\ response[r].item_parameters[i].model_type = "2PL"

\* C18 witness: /analyze answered with type 2PL after a 3PL fit that was
\* turned down and a 2PL fit, with two item rows.
C18_Witness ==
    \E r \in Reqs :
        /\ Analyzed(r)
        /\ calls[r] = <<"3PL", "2PL">>
        /\ response[r].analysis_type = "2PL"
        /\ Len(response[r].item_parameters) = 2
        /\ response[r].item_parameters[2].guessing = 0

\* C19 as stated, for the script: when the engine raises for some items in
\* the item-information loop, the output still has one curve per item, of
\* the full grid length, and the run succeeds.  Fails: the error handler
\* assigns the NA curve to a list of its own, so the written list has no
\* curve at all for an item that raised.
C19_OneCurvePerItem ==
    (script.pc = "exited" /\ script.exit = 0)
    => /\ Len(script.results.iif) = script.results.items
       /\ \A i \in 1..Len(script.results.iif) :
             /\ script.results.iif[i].item_id = ItemId(i)
             /\ Len(script.results.iif[i].info) = GRID_POINTS

\* The payloads /analyze and /testinfo can answer with when testinfo()
\* raises, from the position of request r.
TifFailurePayloads(r) ==
    { Payload(op[r], fit_result[r], RawTables[tbl[r]],
              CleanRows(RawTables[tbl[r]]), co, NULL, {}) :
        co \in SeCalls(op[r], SeOutcomes) }

\* The test-information part of a success payload of endpoint o.
TestInformation(o, p) ==
    IF o = "analyze" THEN p.test_information
    ELSE [theta |-> p.theta, information |-> p.information]

\* C20: when testinfo() raises, /testinfo and /analyze still answer success,
\* with the full grid of 101 ability values and NA for every information
\* value; and every test-information curve answered is either that curve of
\* NA or a curve of 101 computed values, never a shorter or a mixed one.
C20_TestInfoFailureGivesPlaceholders ==
    \A r \in Reqs :
        /\ (pc[r] = "respond" /\ op[r] \in {"analyze", "testinfo"})
           => \A p \in TifFailurePayloads(r) :
                 /\ p.status = "success"
                 /\ Len(TestInformation(op[r], p).theta) = GRID_POINTS
                 /\ Len(TestInformation(op[r], p).information) = GRID_POINTS
                 /\ \A i \in 1..GRID_POINTS :
                       TestInformation(op[r], p).information[i] = NA
        /\ (pc[r] = "done" /\ op[r] \in {"analyze", "testinfo"}
            /\ response[r].status = "success")
           => LET ti == TestInformation(op[r], response[r])
              IN  /\ Len(ti.theta) = GRID_POINTS
                  /\ Len(ti.information) = GRID_POINTS
                  /\ \/ \A i \in 1..GRID_POINTS : ti.information[i] = NA
                     \/ \A i \in 1..GRID_POINTS : ti.information[i] # NA

\* C20 witness: /testinfo has answered success with 101 ability values and
\* an information curve of 101 NA.
C20_Witness ==
    \E r \in Reqs :
        /\ pc[r] = "done"
        /\ op[r] = "testinfo"
        /\ response[r].status = "success"
        /\ Len(response[r].theta) = 101
        /\ Len(response[r].information) = 101
        /\ \A i \in 1..101 : response[r].information[i] = NA

\* C21: every endpoint validates the table before it turns to the cache, on
\* every call: a request whose table fails validation ends in failure
\* without a cache read, a fit or an engine call, also when its key has an
\* entry; the cache is looked up only by a request that passed validation in
\* the step before.
C21_ValidateBeforeCache ==
    [][\A r \in Reqs :
          /\ (pc[r] = "idle" /\ pc'[r] # "idle")
             => IF ValidateStatus(key'[r], RawTables[tbl'[r]]) = "ok"
                THEN /\ pc'[r] = "lookup"
                     /\ fit_result'[r] = NULL
                     /\ cache' = cache
                ELSE /\ pc'[r] = "done"
                     /\ Failed(response'[r])
                     /\ fit_result'[r] = NULL
                     /\ calls'[r] = <<>>
                     /\ cache' = cache
          /\ (pc'[r] = "lookup" /\ pc[r] # "lookup") => pc[r] = "idle"
          /\ (fit_result'[r] # NULL /\ fit_result[r] = NULL)
             => pc[r] \in {"lookup"} \cup FitTerminal
          /\ (pc'[r] = "AttemptingRich" /\ pc[r] # "AttemptingRich")
             => pc[r] = "lookup"
      ]_vars

\* C21 witness: a request on a key that has an entry was turned away by
\* validation, with no engine call and no fit result.
C21_Witness ==
    \E r \in Reqs :
        /\ pc[r] = "done"
        /\ key[r] # NoPath
        /\ cache[key[r]] # NULL
        /\ ValidateStatus(key[r], RawTables[tbl[r]]) # "ok"
        /\ Failed(response[r])
        /\ calls[r] = <<>>
        /\ fit_result[r] = NULL

\* The payload /analyze answers with from the position of request r when
\* coef(..., printSE = TRUE) does what co says and testinfo() what tif says.
AnalyzePayload(r, co, tif) ==
    Payload("analyze", fit_result[r], RawTables[tbl[r]],
            CleanRows(RawTables[tbl[r]]), co, tif, {})

\* C22: when the extraction of standard errors fails, /analyze still answers
\* success, every item row has se_discrimination, se_difficulty and
\* se_guessing 0, and discrimination, difficulty and guessing are what they
\* are when the extraction succeeds.
C22_SeFailureGivesZeros ==
    \A r \in Reqs :
        (pc[r] = "respond" /\ op[r] = "analyze")
        => \A tif \in TifOutcomes :
            LET p0 == AnalyzePayload(r, NULL, tif)
            IN  /\ p0.status = "success"
                /\ Len(p0.item_parameters) = Len(fit_result[r].model.items)
                /\ \A i \in 1..Len(p0.item_parameters) :
                      /\ p0.item_parameters[i].se_discrimination = 0
                      /\ p0.item_parameters[i].se_difficulty = 0
                      /\ p0.item_parameters[i].se_guessing = 0
                      /\ \A co \in SeOutcomes :
                            LET q == AnalyzePayload(r, co, tif).item_parameters[i]
                            IN  /\ q.discrimination
                                     = p0.item_parameters[i].discrimination
                                /\ q.difficulty
                                     = p0.item_parameters[i].difficulty
                                /\ q.guessing = p0.item_parameters[i].guessing

\* C22 witness: /analyze has answered success for a 3PL fit with all six
\* standard errors 0, which only a failed extraction gives on these
\* outcomes.
C22_Witness ==
    \E r \in Reqs :
        /\ Analyzed(r)
        /\ response[r].analysis_type = "3PL"
        /\ \A i \in 1..2 :
              /\ response[r].item_parameters[i].se_discrimination = 0
              /\ response[r].item_parameters[i].se_difficulty = 0
              /\ response[r].item_parameters[i].se_guessing = 0

\* C23 as stated: every failure of every endpoint reaches the caller as a
\* payload with status "error" and the failure's message in error.  Fails:
\* the error function of /analyze evaluates e$message$error on a string,
\* which raises, so no payload is returned for any failure of /analyze.
C23_ErrorPayloadAlways ==
    \A r \in Reqs :
        (pc[r] = "done" /\ response[r].status # "success")
        => /\ response[r].status = "error"
           /\ response[r].error # "$ operator is invalid for atomic vectors"

\* What extract_item_params returns in /analyze from the position of request
\* r when coef(..., printSE = TRUE) does what co says.
Extracted(r, co) ==
    ExtractItemParams(
        fit_result[r].model.items,
        SeOrZeros(ExtractStandardErrors(co, fit_result[r].type),
                  fit_result[r].type, Len(fit_result[r].model.items)),
        fit_result[r].type)

\* The numeric fields of a row of item parameters.
NumericFields ==
    {"discrimination", "difficulty", "guessing",
     "se_discrimination", "se_difficulty", "se_guessing"}

\* Standard error column c of item i is unavailable under co.
SeUnavailable(co, i, c) ==
    \/ co = NULL
    \/ co[i].rows < 2
    \/ co[i][c] = NA

\* C24: extract_item_params returns one row per coefficient row, in order,
\* with ids item_1..item_n; a missing discrimination becomes 1.0 and a
\* missing difficulty 0.0; guessing is 0.0 for a 2PL model and the rounded
\* coefficient for a 3PL model; a standard error that is unavailable becomes
\* 0.0, and the guessing standard error of a 2PL model is 0.0; no field is
\* NA.
C24_ExtractDefaults ==
    \A r \in Reqs :
        (pc[r] = "respond" /\ op[r] = "analyze")
        => \A co \in SeOutcomes :
            LET items == fit_result[r].model.items
                type  == fit_result[r].type
                out   == Extracted(r, co)
            IN  /\ Len(out) = Len(items)
                /\ \A i \in 1..Len(out) :
                      /\ out[i].item_id = ItemId(i)
                      /\ out[i].model_type = type
                      /\ items[i].a = NA => out[i].discrimination = 100000
                      /\ items[i].a # NA
                         => out[i].discrimination = Round4(items[i].a)
                      /\ items[i].b = NA => out[i].difficulty = 0
                      /\ items[i].b # NA
                         => out[i].difficulty = Round4(items[i].b)
                      /\ type = "2PL"
                         => out[i].guessing = 0 /\ out[i].se_guessing = 0
                      /\ type = "3PL" => out[i].guessing = Round4(items[i].g)
                      /\ SeUnavailable(co, i, "a")
                         => out[i].se_discrimination = 0
                      /\ SeUnavailable(co, i, "b") => out[i].se_difficulty = 0
                      /\ SeUnavailable(co, i, "g") => out[i].se_guessing = 0
                      /\ DOMAIN out[i] = NumericFields
                                           \cup {"item_id", "model_type"}
                      /\ \A f \in NumericFields : out[i][f] # NA

\* C24 witness: /analyze has answered for a 2PL model whose coefficient
\* table has a missing discrimination in row 1 and a missing difficulty in
\* row 2; the rows report 1.0 and 0.0.
C24_Witness ==
    \E r \in Reqs :
        /\ Analyzed(r)
        /\ fit_result[r].model.items[1].a = NA
        /\ fit_result[r].model.items[2].b = NA
        /\ Len(response[r].item_parameters) = 2
        /\ response[r].item_parameters[1].discrimination = 100000
        /\ response[r].item_parameters[2].difficulty = 0
        /\ response[r].item_parameters[2].discrimination = 123460

\* The curves of a success payload of endpoint o, each as its ability
\* values and its output values.
Curves(o, p) ==
    CASE o = "analyze" ->
           { [theta  |-> p.test_information.theta,
              output |-> p.test_information.information] }
      [] o = "testinfo" -> { [theta |-> p.theta, output |-> p.information] }
      [] o = "iif" ->
           { [theta |-> p.iif_data[i].theta, output |-> p.iif_data[i].iif] :
               i \in 1..Len(p.iif_data) }
      [] OTHER ->
           IF "icc_data" \in DOMAIN p
           THEN { [theta  |-> p.icc_data[i].theta,
                   output |-> p.icc_data[i].probability] :
                    i \in 1..Len(p.icc_data) }
           ELSE { [theta |-> p.theta, output |-> p.probability] }

\* C25: every curve an endpoint answers with has 101 ability values and 101
\* output values, and its ability values are -4, -3.92, ..., 4: 8000 units
\* apart from -400000 to 400000.
C25_CurvesOnTheGrid ==
    \A r \in Reqs :
        (pc[r] = "done" /\ response[r].status = "success")
        => /\ Curves(op[r], response[r]) # {}
           /\ \A c \in Curves(op[r], response[r]) :
                 /\ Len(c.theta) = 101
                 /\ Len(c.output) = 101
                 /\ \A i \in 1..101 : c.theta[i] = (8000 * (i - 1)) - 400000

\* C25 witness: /iif has answered with a computed curve for item 1 and a
\* curve of placeholders for item 2.
C25_Witness ==
    \E r \in Reqs :
        /\ pc[r] = "done"
        /\ op[r] = "iif"
        /\ response[r].status = "success"
        /\ Len(response[r].iif_data) = 2
        /\ response[r].iif_data[1].iif[101] # NA
        /\ response[r].iif_data[2].iif[101] = NA
        /\ response[r].iif_data[2].theta[101] = 400000

\* What the engine reported of a fitted model: the model without the data
\* it was fitted to.
Report(m) ==
    IF m = NULL THEN NULL
    ELSE [itemtype |-> m.itemtype, converged |-> m.converged,
          items |-> m.items]

\* The service's request 1 and the script are both at position p of their
\* fit functions after the same outcome of the 3PL call.
BothAt(p) ==
    /\ pc[1] = p
    /\ script.pc = p
    /\ Report(model_3pl[1]) = Report(script.model_3pl)

\* Both fit functions have returned after the same engine outcomes.
BothFitted ==
    /\ pc[1] \in FitTerminal
    /\ script.pc = "fitted"
    /\ Report(model_3pl[1]) = Report(script.model_3pl)
    /\ Report(model_2pl[1]) = Report(script.model_2pl)

\* The two fit functions decide alike on every outcome of the 3PL call.
SameVerdicts == \A m \in RichOutcomes : RichVerdict(m) = ScriptVerdict(m)

\* The two clean_parameters return the same table for every table and type.
SameCleaning ==
    \A mt \in {"2PL", "3PL"} :
        \A t \in ParamTables("2PL") \cup ParamTables("3PL") :
            CleanParameters(t, mt) = ScriptCleanParameters(t, mt)

\* C26: fit_irt_model and fit_irt_model_standalone, given the same engine
\* outcomes, have made the same engine calls, decide alike after the 3PL
\* call and return the same model and model type; the two clean_parameters
\* return the same table for the same table and model type, so /analyze and
\* the script report the same item parameters for the same fit.
C26_ServiceAndScriptAgree ==
    /\ SameVerdicts
    /\ SameCleaning
    /\ BothAt("inspect")
       => /\ calls[1] = script.calls
          /\ RichVerdict(model_3pl[1]) = ScriptVerdict(script.model_3pl)
    /\ BothAt("AttemptingSimple") => calls[1] = script.calls
    /\ BothFitted
       => /\ calls[1] = script.calls
          /\ FitReturn(1).type = script.fit_result.type
          /\ Report(FitReturn(1).model) = Report(script.fit_result.model)
    /\ (/\ Analyzed(1)
        /\ script.pc = "exited"
        /\ script.exit = 0
        /\ Report(fit_result[1].model) = Report(script.fit_result.model)
        /\ fit_result[1].type = script.fit_result.type)
       => /\ response[1].item_parameters = script.results.parameters
          /\ response[1].analysis_type = script.results.model_type

\* C26 witness: both fit functions have returned the 2PL model after a 3PL
\* model with an implausible guessing value, each after two engine calls.
C26_Witness ==
    /\ BothFitted
    /\ model_3pl[1] # NULL
    /\ model_3pl[1].converged
    /\ model_3pl[1].items[2].g > G_HI
    /\ calls[1] = <<"3PL", "2PL">>
    /\ script.calls = <<"3PL", "2PL">>
    /\ script.fit_result.type = "2PL"

\* C27 as stated: fit_irt_model raises only from its 2PL call; the test of
\* the 3PL model never raises, whatever the 3PL call gave, and is followed by
\* the return of the 3PL model or by the 2PL attempt.  Fails: a converged
\* 3PL model with an NA coefficient and no value outside the bounds makes
\* extreme_params NA, and if (!extreme_params) raises.
C27_InspectionNeverRaises ==
    [][\A r \in Reqs :
          /\ (pc[r] = "inspect" /\ pc'[r] # "inspect")
             => pc'[r] \in {"RichAccepted", "AttemptingSimple"}
          /\ (pc[r] \in FitPositions /\ pc'[r] = "done")
             => pc[r] = "AttemptingSimple"
      ]_vars

\* The key request r works on in this step: the one it arrives with, or the
\* one it has.
KeyOf(r) == IF pc[r] = "idle" THEN key'[r] ELSE key[r]

\* C28: a step of a request on key A, whatever the step (arrival, cache hit,
\* cache miss, engine call, store, failure, answer), leaves the entry of
\* every other key B as it was, present or absent, with the same value.
C28_OtherKeysUntouched ==
    [][\A r \in Reqs :
          pc'[r] # pc[r]
          => \A B \in Keys \ {KeyOf(r)} : cache'[B] = cache[B]
      ]_vars

\* C28 witness: a request on ds2 has just stored the model it fitted while
\* ds1 has an entry of its own with another model type.
C28_Witness ==
    \E r \in Reqs :
        /\ pc[r] = "respond"
        /\ key[r] = "ds2"
        /\ calls[r] # <<>>
        /\ cache["ds2"] = fit_result[r]
        /\ cache["ds1"] # NULL
        /\ cache["ds1"].type # cache["ds2"].type

\* A handler of the upload page settles in this step: the last request in
\* flight is over.
UploadHandlerSettles == upload.pending # {} /\ upload'.pending = {}

\* An upload is answered with a session in this step.
UploadSucceeds ==
    \E i \in 1..Len(upload.requests) :
        /\ upload.requests[i].reply.status = "pending"
        /\ upload'.requests[i].reply.status = "ok"
        /\ upload'.requests[i].reply.session_id # ""

\* C29: the upload page has at most one handler in flight; isUploading is
\* true exactly while handleUpload is in flight and isLoadingSample exactly
\* while handleSampleData is, so both are false once the handler settled,
\* with success or failure; while either is true both buttons are disabled
\* and no handler starts; a handler that settles with a failure leaves error
\* non-null and the page where it is, and the page is left only for the
\* analysis page of the session an upload was answered with.
C29_OneUploadInFlight ==
    [][/\ Cardinality(upload'.pending) <= 1
       /\ upload'.isUploading
            <=> \E f \in upload'.pending : f.handler = "handleUpload"
       /\ upload'.isLoadingSample
            <=> \E f \in upload'.pending : f.handler = "handleSampleData"
       /\ (upload.isUploading \/ upload.isLoadingSample)
          => /\ StartDisabled
             /\ SampleDisabled
             /\ Len(upload'.requests) > Len(upload.requests)
                => \E f \in upload.pending : f.stage = "text"
       /\ UploadHandlerSettles
          => /\ ~upload'.isUploading
             /\ ~upload'.isLoadingSample
       /\ (UploadHandlerSettles /\ ~UploadSucceeds)
          => /\ upload'.error # NoError
             /\ upload'.location = upload.location
       /\ (upload.location = UploadRoute /\ upload'.location # UploadRoute)
          => /\ UploadSucceeds
             /\ \E sid \in {"s1", "s2"} :
                   upload'.location = "/analysis/" \o sid
      ]_vars

\* C29 witness: the sample upload was rejected without a message or detail;
\* the page is still shown with the fallback message, nothing in flight and
\* both flags false.
C29_Witness ==
    /\ upload.location = UploadRoute
    /\ Len(upload.requests) = 2
    /\ upload.requests[2].what = "POST simulated_3pl_responses.csv"
    /\ upload.requests[2].reply.status = "failed"
    /\ upload.error = "Failed to load sample data. Please try again."
    /\ upload.pending = {}
    /\ ~upload.isUploading
    /\ ~upload.isLoadingSample

\* C30 as stated: a chart component shows what the fetch for its latest
\* sessionId gave: it is loading while that fetch is in flight, and once
\* nothing is in flight the data it shows are those of its sessionId.
\* Fails: the effect neither cancels the earlier fetch nor tests which
\* fetch a reply belongs to, so the reply that arrives last wins.
C30_LatestSessionWins ==
    chart.kind # "none"
    => /\ (\E f \in chart.pending :
              f.n = chart.fetches /\ f.sessionId = chart.sessionId)
          => chart.loading
       /\ (/\ chart.pending = {}
           /\ ~chart.loading
           /\ chart.error = NoError
           /\ chart.data # "null"
           /\ chart.sessionId # "")
          => chart.data = chart.sessionId

====
